---------------------------- MODULE Spec2Model ----------------------------
(*************************************************************************)
(* Course-data normalization engine of fairway-tracker (backend/app.py): *)
(* tee-name cleaning and colouring, scorecard parsing, course record     *)
(* assembly, custom-tee merging, and the two JSON stores (course cache,  *)
(* custom tees) the request handlers read and write.                     *)
(*                                                                       *)
(* Python strings are sequences of one-character strings, so that        *)
(* strip / rstrip / lower / substring / regex work on characters.        *)
(* Python values of unknown shape (decoded JSON) are tagged records      *)
(* [t |-> "none"], [t |-> "int", v], [t |-> "str", v], [t |-> "list", v] *)
(* and [t |-> "dict", v] with v a sequence of [k, v] items in insertion  *)
(* order.                                                                *)
(*************************************************************************)
EXTENDS Integers, Sequences, FiniteSets, TLC

VARIABLES cache, custom, now, api_key, ops, resp, arg, ret, pc

vars == <<cache, custom, now, api_key, ops, resp, arg, ret, pc>>

-----------------------------------------------------------------------------
(* Python values *)

None == [t |-> "none"]
I(n) == [t |-> "int", v |-> n]
S(s) == [t |-> "str", v |-> s]
L(xs) == [t |-> "list", v |-> xs]
D(items) == [t |-> "dict", v |-> items]
KV(key, val) == [k |-> key, v |-> val]

IsNone(x) == x.t = "none"
IsInt(x) == x.t = "int"
IsStr(x) == x.t = "str"
IsList(x) == x.t = "list"
IsDict(x) == x.t = "dict"

\* bool(x): None, 0, "", [] and {} are falsy
Truthy(x) ==
    CASE x.t = "none" -> FALSE
      [] x.t = "int" -> x.v # 0
      [] OTHER -> Len(x.v) > 0

\* a or b
Or(a, b) == IF Truthy(a) THEN a ELSE b

\* key in d
HasKey(d, key) == \E i \in 1..Len(d.v) : d.v[i].k = key

\* d.get(key, default)
Get(d, key, default) ==
    IF HasKey(d, key)
    THEN d.v[CHOOSE i \in 1..Len(d.v) : d.v[i].k = key].v
    ELSE default

RECURSIVE SumSeq(_)
SumSeq(xs) == IF xs = <<>> THEN 0 ELSE xs[1] + SumSeq(Tail(xs))

SetMin(A) == CHOOSE a \in A : \A b \in A : a <= b
SetMax(A) == CHOOSE a \in A : \A b \in A : b <= a

\* all sequences over A of length 0..n
SeqsUpTo(A, n) == UNION {[1..k -> A] : k \in 0..n}

-----------------------------------------------------------------------------
(* Strings *)

Whitespace == {" "}

UpperCase == <<"A","B","C","D","E","F","G","H","I","J","K","L","M",
               "N","O","P","Q","R","S","T","U","V","W","X","Y","Z">>
LowerCase == <<"a","b","c","d","e","f","g","h","i","j","k","l","m",
               "n","o","p","q","r","s","t","u","v","w","x","y","z">>

LowerChar(c) ==
    IF \E i \in 1..26 : UpperCase[i] = c
    THEN LowerCase[CHOOSE i \in 1..26 : UpperCase[i] = c]
    ELSE c

\* str.lower()
Lower(s) == [i \in 1..Len(s) |-> LowerChar(s[i])]

\* str.lstrip() / str.rstrip() / str.strip()
RECURSIVE LStrip(_)
LStrip(s) ==
    IF s # <<>> /\ s[1] \in Whitespace THEN LStrip(Tail(s)) ELSE s

RECURSIVE RStrip(_)
RStrip(s) ==
    IF s # <<>> /\ s[Len(s)] \in Whitespace
    THEN RStrip(SubSeq(s, 1, Len(s) - 1))
    ELSE s

Strip(s) == LStrip(RStrip(s))

\* str.rstrip(":"): removes every trailing colon
RECURSIVE RStripColon(_)
RStripColon(s) ==
    IF s # <<>> /\ s[Len(s)] = ":"
    THEN RStripColon(SubSeq(s, 1, Len(s) - 1))
    ELSE s

\* word in s
Contains(s, word) ==
    \E i \in 1..(Len(s) - Len(word) + 1) : SubSeq(s, i, i + Len(word) - 1) = word

\* re.sub(r'\s*\([^)]*\)\s*$', '', s): the leftmost match is removed.  A match
\* is a suffix  ws* "(" [^)]* ")" ws*  of s, so it starts at the whitespace
\* run in front of the leftmost "(" that has no ")" between itself and the
\* ")" that ends the string (trailing whitespace aside).
ParenOpens(s, e) ==
    IF e > 0 /\ s[e] = ")"
    THEN {j \in 1..(e - 1) : s[j] = "(" /\ \A k \in (j + 1)..(e - 1) : s[k] # ")"}
    ELSE {}

ParenCut(s, opens) ==
    IF opens = {} THEN s ELSE RStrip(SubSeq(s, 1, SetMin(opens) - 1))

ParenSub(s) == ParenCut(s, ParenOpens(s, Len(RStrip(s))))

\* _clean_tee_name
CleanTeeName(raw_name) == Strip(ParenSub(RStripColon(Strip(raw_name))))

-----------------------------------------------------------------------------
(* Tee colours *)

black == <<"b","l","a","c","k">>
blue == <<"b","l","u","e">>
white == <<"w","h","i","t","e">>
gold == <<"g","o","l","d">>
red == <<"r","e","d">>
green == <<"g","r","e","e","n">>
silver == <<"s","i","l","v","e","r">>
yellow == <<"y","e","l","l","o","w">>
gray == <<"g","r","a","y">>
champ == <<"c","h","a","m","p">>
tips == <<"t","i","p","s">>
back == <<"b","a","c","k">>
middle == <<"m","i","d","d","l","e">>
senior == <<"s","e","n","i","o","r">>
forward == <<"f","o","r","w","a","r","d">>
ladies == <<"l","a","d","i","e","s">>
bronze == <<"b","r","o","n","z","e">>
copper == <<"c","o","p","p","e","r">>

\* the list the for loop of _guess_tee_color scans
ColorScan == <<black, blue, white, gold, red, green, silver, yellow>>

\* a faulty loop body: every colour found is reported as it is
ScanColorAsFound(color) == color

\* the loop body: yellow is reported as gold
ScanColor(color) == IF color = yellow THEN gold ELSE color

\* the keyword fallbacks after the loop
GuessHeuristic(name) ==
    IF Contains(name, champ) \/ Contains(name, tips) THEN black
    ELSE IF Contains(name, back) THEN blue
    ELSE IF Contains(name, middle) THEN white
    ELSE IF Contains(name, senior) \/ Contains(name, forward)
            \/ Contains(name, ladies) THEN red
    ELSE IF Contains(name, bronze) \/ Contains(name, copper) THEN gold
    ELSE gray

\* the for loop: the first colour of the list found in the name decides
GuessScan(name, hits) ==
    IF hits # {} THEN ScanColor(ColorScan[SetMin(hits)]) ELSE GuessHeuristic(name)

GuessLower(name) ==
    GuessScan(name, {i \in 1..Len(ColorScan) : Contains(name, ColorScan[i])})

\* _guess_tee_color
GuessTeeColor(tee_name) == GuessLower(Lower(tee_name))

-----------------------------------------------------------------------------
(* Scorecard parsing *)

Digits == <<"0","1","2","3","4","5","6","7","8","9">>
IsDigit(c) == \E i \in 1..10 : Digits[i] = c
DigitVal(c) == (CHOOSE i \in 1..10 : Digits[i] = c) - 1

RECURSIVE DecimalVal(_)
DecimalVal(ds) ==
    IF ds = <<>> THEN 0
    ELSE 10 * DecimalVal(SubSeq(ds, 1, Len(ds) - 1)) + DigitVal(ds[Len(ds)])

NotInt == [ok |-> FALSE, v |-> 0]

ParseDigits(sign, ds) ==
    IF ds # <<>> /\ \A i \in 1..Len(ds) : IsDigit(ds[i])
    THEN [ok |-> TRUE, v |-> sign * DecimalVal(ds)]
    ELSE NotInt

ParseSigned(s) ==
    IF s # <<>> /\ s[1] = "-" THEN ParseDigits(0 - 1, Tail(s))
    ELSE IF s # <<>> /\ s[1] = "+" THEN ParseDigits(1, Tail(s))
    ELSE ParseDigits(1, s)

\* int(x) inside try/except (ValueError, TypeError): [ok, v].  An int is
\* itself; a string is stripped, may carry one sign and must then be all
\* digits (ValueError otherwise); None, lists and dicts are a TypeError.
ParseInt(x) ==
    IF IsInt(x) THEN [ok |-> TRUE, v |-> x.v]
    ELSE IF IsStr(x) THEN ParseSigned(Strip(x.v))
    ELSE NotInt

kHoleC == <<"H","o","l","e",":">>
kHole == <<"H","o","l","e">>
kOut == <<"O","u","t">>
kIn == <<"I","n">>
kTotal == <<"T","o","t","a","l">>
kPar == <<"P","a","r">>
kHandicap == <<"H","a","n","d","i","c","a","p">>
kTees == <<"t","e","e","s">>
kColor == <<"c","o","l","o","r">>
kName == <<"n","a","m","e">>
kYards == <<"y","a","r","d","s">>
kYardage == <<"y","a","r","d","a","g","e">>
par == <<"p","a","r">>
handicap == <<"h","a","n","d","i","c","a","p">>
hdcp == <<"h","d","c","p">>
hole == <<"h","o","l","e">>

\* the row fields that are not hole columns
SkippedKeys == {kHoleC, kHole, kOut, kIn, kTotal}

\* dict (function) helpers for {hole_num: value}
EmptyMap == <<>>
MapSet(f, key, val) ==
    [x \in (DOMAIN f) \union {key} |-> IF x = key THEN val ELSE f[x]]
MapGet(f, key, default) == IF key \in DOMAIN f THEN f[key] ELSE default

RECURSIVE MapSumOver(_, _)
MapSumOver(f, A) ==
    IF A = {} THEN 0
    ELSE f[SetMin(A)] + MapSumOver(f, A \ {SetMin(A)})
MapSum(f) == MapSumOver(f, DOMAIN f)

\* ordered dict helpers for {tee_name: ...}: a sequence of [k, v] items;
\* assigning to an existing key keeps its position
ItemKeys(items) == {items[i].k : i \in 1..Len(items)}
ItemGet(items, key) == items[CHOOSE i \in 1..Len(items) : items[i].k = key].v
ItemSet(items, key, val) ==
    IF key \in ItemKeys(items)
    THEN [i \in 1..Len(items) |->
            IF items[i].k = key THEN KV(key, val) ELSE items[i]]
    ELSE Append(items, KV(key, val))

\* try: hole_num = int(key); m[hole_num] = int(val)  except: pass
CellInto(acc, key, n, v) ==
    IF key \notin SkippedKeys /\ n.ok /\ v.ok THEN MapSet(acc, n.v, v.v) ELSE acc

\* the `for key, val in row.items()` loops of the row format: the columns
\* whose key and value both convert with int() are written into acc
RECURSIVE RowCells(_, _)
RowCells(items, acc) ==
    IF items = <<>> THEN acc
    ELSE RowCells(Tail(items),
                  CellInto(acc, items[1].k, ParseInt(S(items[1].k)),
                           ParseInt(items[1].v)))

ParseState == [par_holes |-> EmptyMap, handicap_holes |-> EmptyMap,
               tee_yardages |-> <<>>, raised |-> FALSE, bad_key |-> FALSE]

Raised(st) == [st EXCEPT !.raised = TRUE]

\* lines 212-214: a tee row of zeros or without numbers is dropped
TeeRow(st, tee_name, hole_yards) ==
    IF DOMAIN hole_yards # {} /\ MapSum(hole_yards) > 0
    THEN [st EXCEPT !.tee_yardages = ItemSet(@, tee_name, hole_yards)]
    ELSE st

\* lines 179-214: the row's label selects what its columns are
RowByLabel(st, row, label_raw, label) ==
    IF label = par
    THEN [st EXCEPT !.par_holes = RowCells(row.v, @)]
    ELSE IF label = handicap \/ label = hdcp
    THEN [st EXCEPT !.handicap_holes = RowCells(row.v, @)]
    ELSE IF label # <<>> /\ label # hole
    THEN TeeRow(st, CleanTeeName(RStripColon(label_raw)), RowCells(row.v, EmptyMap))
    ELSE st

\* lines 176-177
RowLabelRaw(st, row, label_raw) ==
    RowByLabel(st, row, label_raw, Lower(Strip(RStripColon(label_raw))))

RowLabel(st, row, label_val) ==
    IF ~IsStr(label_val) THEN Raised(st)
    ELSE RowLabelRaw(st, row, Strip(label_val.v))

\* one iteration of the loop of _parse_scorecard_row_format
RowStep(st, row) ==
    IF ~IsDict(row) THEN Raised(st)
    ELSE RowLabel(st, row, Get(row, kHoleC, Get(row, kHole, S(<<>>))))

\* _parse_scorecard_row_format
RECURSIVE ParseScorecardRowFormat(_, _)
ParseScorecardRowFormat(rows, st) ==
    IF rows = <<>> \/ st.raised THEN st
    ELSE ParseScorecardRowFormat(Tail(rows), RowStep(st, rows[1]))

\* lines 254-257: tee_yardages[tee_name][hole_num] = int(yards) in a try.  A
\* hole number that is a string is a legal dict key (bad_key records that the
\* par or a yardage map then holds a non-integer key); an unhashable one
\* raises TypeError inside the try and is skipped.
TeeYardsInto(st, hole_num, tee_name, y) ==
    IF ~y.ok THEN st
    ELSE IF IsInt(hole_num)
    THEN [st EXCEPT !.tee_yardages =
            ItemSet(@, tee_name, MapSet(ItemGet(@, tee_name), hole_num.v, y.v))]
    ELSE IF IsStr(hole_num) THEN [st EXCEPT !.bad_key = TRUE]
    ELSE st

\* lines 251-253
TeeYards(st, hole_num, tee_name, yards) ==
    IF IsNone(yards) THEN st
    ELSE TeeYardsInto([st EXCEPT !.tee_yardages =
                         IF tee_name \in ItemKeys(@) THEN @
                         ELSE Append(@, KV(tee_name, EmptyMap))],
                      hole_num, tee_name, ParseInt(yards))

\* lines 249-250
TeeNamed(st, hole_num, tee_data, raw_name) ==
    IF ~IsStr(raw_name) THEN Raised(st)
    ELSE TeeYards(st, hole_num, CleanTeeName(raw_name.v),
                  Or(Get(tee_data, kYards, None), Get(tee_data, kYardage, None)))

\* line 248
TeeItem(st, hole_num, tee_key, tee_data) ==
    IF ~IsDict(tee_data) THEN Raised(st)
    ELSE TeeNamed(st, hole_num, tee_data,
                  Or(Or(Get(tee_data, kColor, None), Get(tee_data, kName, None)),
                     S(tee_key)))

\* the `for tee_key, tee_data in tees.items()` loop of the per-hole format
RECURSIVE TeeItems(_, _, _)
TeeItems(items, hole_num, st) ==
    IF items = <<>> \/ st.raised THEN st
    ELSE TeeItems(Tail(items), hole_num,
                  TeeItem(st, hole_num, items[1].k, items[1].v))

\* a faulty variant: the first Par given for a hole is kept
EntryParFirst(st, hole_num, p) ==
    IF p.ok /\ IsInt(hole_num) /\ hole_num.v \notin DOMAIN st.par_holes
    THEN [st EXCEPT !.par_holes = MapSet(@, hole_num.v, p.v)]
    ELSE st

\* lines 234-238
EntryPar(st, hole_num, p) ==
    IF ~p.ok THEN st
    ELSE IF IsInt(hole_num) THEN [st EXCEPT !.par_holes = MapSet(@, hole_num.v, p.v)]
    ELSE IF IsStr(hole_num) THEN [st EXCEPT !.bad_key = TRUE]
    ELSE st

\* lines 240-244 (a string key never answers handicap_holes.get(h))
EntryHandicap(st, hole_num, h) ==
    IF h.ok /\ IsInt(hole_num)
    THEN [st EXCEPT !.handicap_holes = MapSet(@, hole_num.v, h.v)]
    ELSE st

\* lines 246-247
EntryTees(st, hole_num, tees) ==
    IF ~IsDict(tees) THEN Raised(st) ELSE TeeItems(tees.v, hole_num, st)

EntryHole(st, entry, hole_num) ==
    IF IsNone(hole_num) THEN st
    ELSE EntryTees(EntryHandicap(EntryPar(st, hole_num,
                                          ParseInt(Get(entry, kPar, None))),
                                 hole_num, ParseInt(Get(entry, kHandicap, None))),
                   hole_num, Get(entry, kTees, D(<<>>)))

\* one iteration of the loop of _parse_scorecard_perhole_format
EntryStep(st, entry) ==
    IF ~IsDict(entry) THEN Raised(st)
    ELSE EntryHole(st, entry, Get(entry, kHole, None))

\* _parse_scorecard_perhole_format
RECURSIVE ParseScorecardPerholeFormat(_, _)
ParseScorecardPerholeFormat(rows, st) ==
    IF rows = <<>> \/ st.raised THEN st
    ELSE ParseScorecardPerholeFormat(Tail(rows), EntryStep(st, rows[1]))

\* JSON documents the provider is modelled to send as strings
docEmptyList == <<"[","]">>
docNull == <<"n","u","l","l">>
docObject == <<"{","}">>
docNumber == <<"5">>
docTruncated == <<"[","{">>
docParRow == <<"[","{","\"","H","o","l","e","\"",":","\"","P","a","r","\"",",","\"","1","\"",":","\"","4","\"","}","]">>

\* json.loads on those documents: [ok, v]; any other text (docTruncated) is
\* a JSONDecodeError
JsonLoads(text) ==
    CASE text = docEmptyList -> [ok |-> TRUE, v |-> L(<<>>)]
      [] text = docNull -> [ok |-> TRUE, v |-> None]
      [] text = docObject -> [ok |-> TRUE, v |-> D(<<>>)]
      [] text = docNumber -> [ok |-> TRUE, v |-> I(5)]
      [] text = docParRow ->
           [ok |-> TRUE,
            v |-> L(<<D(<<KV(kHole, S(kPar)), KV(<<"1">>, S(<<"4">>))>>)>>)]
      [] OTHER -> [ok |-> FALSE, v |-> None]

\* a faulty test: a "Hole" or "Hole:" field is looked for first
DetectRowFirst(first) ==
    IF HasKey(first, kHoleC) \/ HasKey(first, kHole) THEN "row"
    ELSE IF IsInt(Get(first, kHole, None)) /\ HasKey(first, kTees) THEN "perhole"
    ELSE "none"

\* the format test on rows[0] (lines 283-289)
DetectFormat(first) ==
    IF IsInt(Get(first, kHole, None)) /\ HasKey(first, kTees) THEN "perhole"
    ELSE IF HasKey(first, kHoleC) \/ HasKey(first, kHole) THEN "row"
    ELSE "none"

\* sum(m.get(h, 0) for h in lo..hi)
RECURSIVE SumHoles(_, _, _)
SumHoles(m, lo, hi) ==
    IF lo > hi THEN 0 ELSE MapGet(m, lo, 0) + SumHoles(m, lo + 1, hi)

\* a faulty front nine: every hole of the range is summed
FrontHolesAll(m, num_holes) == SumHoles(m, 1, num_holes)

\* sum over front_holes = [h for h in hole_range if h <= 9]
FrontHoles(m, num_holes) == SumHoles(m, 1, IF num_holes < 9 THEN num_holes ELSE 9)
\* sum over back_holes = [h for h in hole_range if h > 9]
BackHoles(m, num_holes) == SumHoles(m, 10, num_holes)

NullIfZero(n) == IF n > 0 THEN I(n) ELSE None

\* lines 311-318
ParData(par_list, par_front, par_back) ==
    [total |-> NullIfZero(par_front + par_back),
     front |-> NullIfZero(par_front),
     back |-> NullIfZero(par_back),
     holes |-> par_list]

\* lines 330-336
TeeTotals(yard_list, front_yds, back_yds) ==
    [hole_yardages |-> yard_list,
     front_yardage |-> front_yds,
     back_yardage |-> back_yds,
     total_yardage |-> front_yds + back_yds]

\* the entry of tees_parsed built for one tee (lines 327-336)
TeeParsed(hole_yards, num_holes) ==
    TeeTotals([h \in 1..num_holes |-> MapGet(hole_yards, h, 0)],
              FrontHoles(hole_yards, num_holes), BackHoles(hole_yards, num_holes))

\* lines 321-322, 340
HandicapList(handicap_list) ==
    IF \E h \in 1..Len(handicap_list) : ~IsNone(handicap_list[h])
    THEN L(handicap_list) ELSE None

\* lines 303-343
BuildResult(st, num_holes) ==
    [kind |-> "ok",
     par |-> ParData([h \in 1..num_holes |-> MapGet(st.par_holes, h, 0)],
                     FrontHoles(st.par_holes, num_holes),
                     BackHoles(st.par_holes, num_holes)),
     handicap |-> HandicapList([h \in 1..num_holes |->
                                  IF h \in DOMAIN st.handicap_holes
                                  THEN I(st.handicap_holes[h]) ELSE None]),
     tee_yardages |-> [i \in 1..Len(st.tee_yardages) |->
                         KV(st.tee_yardages[i].k,
                            TeeParsed(st.tee_yardages[i].v, num_holes))],
     num_holes |-> num_holes]

\* lines 295-302: all_holes comes from the par and the yardage maps
AllHoles(st) ==
    (DOMAIN st.par_holes) \union
    UNION {DOMAIN st.tee_yardages[i].v : i \in 1..Len(st.tee_yardages)}

NumHoles(all_holes) == SetMax(all_holes)

BuildHoles(st, all_holes) ==
    IF all_holes = {} THEN [kind |-> "none"]
    ELSE BuildResult(st, NumHoles(all_holes))

\* the tail of _parse_scorecard (lines 291-343).  With a string hole number
\* among the keys max() or range() raises TypeError.
BuildScorecard(st) ==
    IF st.raised \/ st.bad_key THEN [kind |-> "raise"]
    ELSE IF DOMAIN st.par_holes = {} /\ st.tee_yardages = <<>>
    THEN [kind |-> "none"]
    ELSE BuildHoles(st, AllHoles(st))

\* lines 283-289
ParseFormat(rows, fmt) ==
    IF fmt = "none" THEN [kind |-> "none"]
    ELSE BuildScorecard(IF fmt = "perhole"
                        THEN ParseScorecardPerholeFormat(rows, ParseState)
                        ELSE ParseScorecardRowFormat(rows, ParseState))

\* lines 279-283: rows[0].get raises AttributeError unless rows[0] is a dict
ParseRows(rows) ==
    IF ~IsList(rows) \/ Len(rows.v) = 0 THEN [kind |-> "none"]
    ELSE IF ~IsDict(rows.v[1]) THEN [kind |-> "raise"]
    ELSE ParseFormat(rows.v, DetectFormat(rows.v[1]))

\* lines 271-277
ParseLoaded(loaded) ==
    IF ~loaded.ok THEN [kind |-> "none"] ELSE ParseRows(loaded.v)

\* _parse_scorecard: [kind |-> "none"] is the None result, [kind |-> "raise"]
\* an exception that leaves the function, [kind |-> "ok", ...] the parsed dict
ParseScorecard(scorecard_raw) ==
    IF ~Truthy(scorecard_raw) THEN [kind |-> "none"]
    ELSE ParseLoaded(IF IsStr(scorecard_raw) THEN JsonLoads(scorecard_raw.v)
                     ELSE [ok |-> TRUE, v |-> scorecard_raw])

-----------------------------------------------------------------------------
(* Course record assembly (get_course_details, cache miss) *)

kCourse == <<"c","o","u","r","s","e">>
kLocation == <<"l","o","c","a","t","i","o","n">>
kTeeBoxes == <<"t","e","e","B","o","x","e","s">>
kTee_boxes == <<"t","e","e","_","b","o","x","e","s">>
kMale == <<"m","a","l","e">>
kFemale == <<"f","e","m","a","l","e">>
kTeeName == <<"t","e","e","_","n","a","m","e">>
kHoles == <<"h","o","l","e","s">>
kTotalYards == <<"t","o","t","a","l","_","y","a","r","d","s">>
kNumberOfHoles == <<"n","u","m","b","e","r","_","o","f","_","h","o","l","e","s">>
kSlopeRating == <<"s","l","o","p","e","_","r","a","t","i","n","g">>
kSlope == <<"s","l","o","p","e">>
kCourseRating == <<"c","o","u","r","s","e","_","r","a","t","i","n","g">>
kRating == <<"r","a","t","i","n","g">>
kParTotal == <<"p","a","r","_","t","o","t","a","l">>
kScorecard == <<"s","c","o","r","e","c","a","r","d">>
Unknown == <<"U","n","k","n","o","w","n">>

\* a key a dict does not carry (scorecard tees have no "par", only custom
\* tees have "added_by_user")
Absent == [t |-> "absent"]

\* what `for x in v` iterates: [ok, xs].  A list gives its elements, an empty
\* dict or string nothing; None and numbers raise TypeError; the keys of a
\* dict and the characters of a string are strings, on which the loop bodies
\* call .get and raise AttributeError.
Iterate(v) ==
    IF IsList(v) THEN [ok |-> TRUE, xs |-> v.v]
    ELSE IF (IsDict(v) \/ IsStr(v)) /\ Len(v.v) = 0 THEN [ok |-> TRUE, xs |-> <<>>]
    ELSE [ok |-> FALSE, xs |-> <<>>]

AllInts(xs) == \A i \in 1..Len(xs) : IsInt(xs[i])

\* sum(xs) over a list of ints
RECURSIVE SumVals(_)
SumVals(xs) == IF xs = <<>> THEN 0 ELSE xs[1].v + SumVals(Tail(xs))

\* sum(xs[:9]) if len(xs) >= 9 else sum(xs)
FrontSum(xs) == IF Len(xs) >= 9 THEN SumVals(SubSeq(xs, 1, 9)) ELSE SumVals(xs)
\* sum(xs[9:]) if len(xs) > 9 else 0
BackSum(xs) == IF Len(xs) > 9 THEN SumVals(SubSeq(xs, 10, Len(xs))) ELSE 0

AnyScan(pos, bad) ==
    IF pos = {} THEN [ok |-> bad = {}, v |-> FALSE]
    ELSE [ok |-> \A i \in bad : i > SetMin(pos), v |-> TRUE]

\* any(p > 0 for p in hole_pars): [ok, v]; comparing a non-number with 0
\* raises TypeError unless a positive entry stopped the scan before it
AnyPositive(xs) ==
    AnyScan({i \in 1..Len(xs) : IsInt(xs[i]) /\ xs[i].v > 0},
            {i \in 1..Len(xs) : ~IsInt(xs[i])})

NoTeeBoxes == [ok |-> TRUE, info |-> <<>>]

\* lines 807-811
TeeBoxKeyed(acc, tb, tb_name) ==
    IF tb_name = <<>> THEN acc
    ELSE [acc EXCEPT !.info =
            ItemSet(@, tb_name,
                    [slope |-> Or(Get(tb, kSlope, None), Get(tb, kSlopeRating, None)),
                     rating |-> Or(Get(tb, kRating, None), Get(tb, kCourseRating, None))])]

\* line 806: _clean_tee_name raises AttributeError on a name that is no string
TeeBoxNamed(acc, tb, nm) ==
    IF ~IsStr(nm) THEN [acc EXCEPT !.ok = FALSE]
    ELSE TeeBoxKeyed(acc, tb, Lower(CleanTeeName(nm.v)))

TeeBoxEntry(acc, tb) ==
    IF ~IsDict(tb) THEN [acc EXCEPT !.ok = FALSE]
    ELSE TeeBoxNamed(acc, tb, Get(tb, kName, Get(tb, kTeeName, S(<<>>))))

\* the loop of line 805; ok = FALSE is an AttributeError, which the inner
\* try (JSONDecodeError, TypeError) does not catch
RECURSIVE TeeBoxEntries(_, _)
TeeBoxEntries(xs, acc) ==
    IF xs = <<>> \/ ~acc.ok THEN acc
    ELSE TeeBoxEntries(Tail(xs), TeeBoxEntry(acc, xs[1]))

\* `for tb in (tee_boxes_raw or [])`: a number is a TypeError (caught, empty
\* lookup), the keys of a dict are strings (AttributeError)
TeeBoxIter(boxes) ==
    IF IsList(boxes) THEN TeeBoxEntries(boxes.v, NoTeeBoxes)
    ELSE IF IsInt(boxes) THEN NoTeeBoxes
    ELSE [ok |-> FALSE, info |-> <<>>]

TeeBoxLoaded(loaded) ==
    IF ~loaded.ok THEN NoTeeBoxes ELSE TeeBoxIter(Or(loaded.v, L(<<>>)))

TeeBoxRaw(raw) ==
    IF ~Truthy(raw) THEN NoTeeBoxes
    ELSE TeeBoxLoaded(IF IsStr(raw) THEN JsonLoads(raw.v)
                      ELSE [ok |-> TRUE, v |-> raw])

\* the tee-box lookup of lines 798-813: [ok, info]
TeeBoxInfo(course_obj) ==
    TeeBoxRaw(Or(Get(course_obj, kTeeBoxes, None), Get(course_obj, kTee_boxes, None)))

\* the state of the assembly before the first tee (lines 818-822)
AssemblyState == [final_tees |-> <<>>, par_data |-> None, handicap_data |-> None,
                  course_par |-> None, num_holes |-> I(18), raised |-> FALSE]

\* a faulty test: no tee is ever skipped
SkipNever(final_tees, key) == FALSE

\* `if key in final_tees: continue` (line 829): TRUE when the tee is skipped
SkipTee(final_tees, key) == key \in ItemKeys(final_tees)

\* lines 843-865: the tee built from a tees.male / tees.female entry
GenderTee(t, tee_name, hole_yardages) ==
    [name |-> tee_name,
     color |-> GuessTeeColor(tee_name),
     total_yardage |-> Or(Get(t, kTotalYards, None), I(SumVals(hole_yardages))),
     front_yardage |-> I(FrontSum(hole_yardages)),
     back_yardage |-> I(BackSum(hole_yardages)),
     hole_yardages |-> IF hole_yardages # <<>> THEN L(hole_yardages) ELSE None,
     slope |-> Or(Get(t, kSlopeRating, None), Get(t, kSlope, None)),
     rating |-> Or(Get(t, kCourseRating, None), Get(t, kRating, None)),
     par |-> Get(t, kParTotal, None),
     added_by_user |-> FALSE]

\* lines 869-878
TeeParData(t, hole_pars, par_front, par_back) ==
    [t |-> "par",
     total |-> Or(Get(t, kParTotal, None), I(par_front + par_back)),
     front |-> NullIfZero(par_front),
     back |-> NullIfZero(par_back),
     holes |-> L(hole_pars)]

SetPar(st, par_data) ==
    [st EXCEPT !.par_data = par_data, !.course_par = par_data.total]

\* lines 880-886
GenderTeeRest(st, t, hole_handicaps) ==
    [st EXCEPT
       !.handicap_data =
           IF IsNone(@) /\ \E i \in 1..Len(hole_handicaps) : ~IsNone(hole_handicaps[i])
           THEN L(hole_handicaps) ELSE @,
       !.course_par =
           IF ~Truthy(@) /\ Truthy(Get(t, kParTotal, None))
           THEN Get(t, kParTotal, None) ELSE @]

\* line 868, after `par_data is None and hole_pars`
GenderTeeParScan(st, t, hole_pars, hole_handicaps, anyPar) ==
    IF ~anyPar.ok THEN Raised(st)
    ELSE IF ~anyPar.v THEN GenderTeeRest(st, t, hole_handicaps)
    ELSE IF ~AllInts(hole_pars) THEN Raised(st)
    ELSE GenderTeeRest(SetPar(st, TeeParData(t, hole_pars, FrontSum(hole_pars),
                                             BackSum(hole_pars))),
                       t, hole_handicaps)

\* lines 867-886: par comes from the first tee with hole data
GenderTeePar(st, t, hole_pars, hole_handicaps) ==
    IF IsNone(st.par_data) /\ hole_pars # <<>>
    THEN GenderTeeParScan(st, t, hole_pars, hole_handicaps, AnyPositive(hole_pars))
    ELSE GenderTeeRest(st, t, hole_handicaps)

\* lines 843-865: sum() raises TypeError on a yardage that is no number
GenderTeeData(st, t, tee_name, n, hole_yardages, hole_pars, hole_handicaps) ==
    IF ~AllInts(hole_yardages) THEN Raised(st)
    ELSE GenderTeePar(
           [st EXCEPT
              !.final_tees = Append(@, KV(Lower(tee_name),
                                          GenderTee(t, tee_name, hole_yardages))),
              !.num_holes = Or(Or(Get(t, kNumberOfHoles, None), I(n)), I(18))],
           t, hole_pars, hole_handicaps)

\* lines 833-841
GenderTeeHoles(st, t, tee_name, holes_it) ==
    IF ~holes_it.ok \/ \E i \in 1..Len(holes_it.xs) : ~IsDict(holes_it.xs[i])
    THEN Raised(st)
    ELSE GenderTeeData(st, t, tee_name, Len(holes_it.xs),
           [i \in 1..Len(holes_it.xs) |-> Get(holes_it.xs[i], kYardage, I(0))],
           [i \in 1..Len(holes_it.xs) |-> Get(holes_it.xs[i], par, I(0))],
           [i \in 1..Len(holes_it.xs) |-> Get(holes_it.xs[i], handicap, None)])

\* lines 827-830: first occurrence wins
GenderTeeKeyed(st, t, tee_name) ==
    IF SkipTee(st.final_tees, Lower(tee_name)) THEN st
    ELSE GenderTeeHoles(st, t, tee_name, Iterate(Get(t, kHoles, L(<<>>))))

\* line 826
GenderTeeNamed(st, t, nm) ==
    IF ~IsStr(nm) THEN Raised(st)
    ELSE GenderTeeKeyed(st, t, CleanTeeName(nm.v))

\* the body of the loop over one gender section's tees (lines 826-886)
GenderTeeStep(st, t) ==
    IF ~IsDict(t) THEN Raised(st)
    ELSE GenderTeeNamed(st, t, Get(t, kTeeName, S(Unknown)))

RECURSIVE GenderTees(_, _)
GenderTees(ts, st) ==
    IF ts = <<>> \/ st.raised THEN st
    ELSE GenderTees(Tail(ts), GenderTeeStep(st, ts[1]))

\* `for gender in ["male", "female"]` (line 824)
GenderOrder == <<kMale, kFemale>>

GenderSection(it, st) ==
    IF ~it.ok THEN Raised(st) ELSE GenderTees(it.xs, st)

\* the loop over the gender sections (lines 824-886)
RECURSIVE GenderSections(_, _, _)
GenderSections(tees_raw, genders, st) ==
    IF genders = <<>> \/ st.raised THEN st
    ELSE GenderSections(tees_raw, Tail(genders),
                        GenderSection(Iterate(Get(tees_raw, genders[1], L(<<>>))), st))

\* a faulty variant: a tee-box value replaces the tee's whenever it is given
FillFromTeeBoxAlways(t, tb) ==
    [t EXCEPT
       !.slope = IF Truthy(tb.slope) THEN tb.slope ELSE @,
       !.rating = IF Truthy(tb.rating) THEN tb.rating ELSE @]

\* lines 891-894: a tee-box value fills a slope / rating the tee lacks
FillFromTeeBox(t, tb) ==
    [t EXCEPT
       !.slope = IF Truthy(tb.slope) /\ ~Truthy(@) THEN tb.slope ELSE @,
       !.rating = IF Truthy(tb.rating) /\ ~Truthy(@) THEN tb.rating ELSE @]

LayerTeeBox(final_tees, key, tb) ==
    IF key \notin ItemKeys(final_tees) THEN final_tees
    ELSE ItemSet(final_tees, key, FillFromTeeBox(ItemGet(final_tees, key), tb))

\* layering the tee-box lookup on the tees (lines 889-894)
RECURSIVE LayerTeeBoxes(_, _)
LayerTeeBoxes(info, final_tees) ==
    IF info = <<>> THEN final_tees
    ELSE LayerTeeBoxes(Tail(info), LayerTeeBox(final_tees, info[1].k, info[1].v))

\* a tee of the parsed scorecard as a record value (lines 916-925)
ScorecardTee(tee_name, yard_data) ==
    [name |-> tee_name,
     color |-> GuessTeeColor(tee_name),
     total_yardage |-> I(yard_data.total_yardage),
     front_yardage |-> I(yard_data.front_yardage),
     back_yardage |-> I(yard_data.back_yardage),
     hole_yardages |-> L([i \in 1..Len(yard_data.hole_yardages) |->
                            I(yard_data.hole_yardages[i])]),
     slope |-> None,
     rating |-> None,
     par |-> Absent,
     added_by_user |-> FALSE]

\* a faulty variant: the scorecard's per-hole data replaces the tee's
EnrichTeeAlways(t, fresh) ==
    [t EXCEPT !.hole_yardages = fresh.hole_yardages,
              !.front_yardage = fresh.front_yardage,
              !.back_yardage = fresh.back_yardage]

\* lines 911-914: per-hole data enriches a tee that has none
EnrichTee(t, fresh) ==
    IF ~Truthy(t.hole_yardages)
    THEN [t EXCEPT !.hole_yardages = fresh.hole_yardages,
                   !.front_yardage = fresh.front_yardage,
                   !.back_yardage = fresh.back_yardage]
    ELSE t

\* lines 908-925
MergeScorecardTee(final_tees, key, fresh) ==
    IF key \in ItemKeys(final_tees)
    THEN ItemSet(final_tees, key, EnrichTee(ItemGet(final_tees, key), fresh))
    ELSE Append(final_tees, KV(key, fresh))

\* merging the scorecard's tees into final_tees (lines 907-925)
RECURSIVE MergeScorecardTees(_, _)
MergeScorecardTees(items, final_tees) ==
    IF items = <<>> THEN final_tees
    ELSE MergeScorecardTees(Tail(items),
                            MergeScorecardTee(final_tees, Lower(items[1].k),
                                              ScorecardTee(items[1].k, items[1].v)))

\* the par dict of a parsed scorecard as a record value
ScorecardPar(p) ==
    [t |-> "par", total |-> p.total, front |-> p.front, back |-> p.back,
     holes |-> L([i \in 1..Len(p.holes) |-> I(p.holes[i])])]

\* a faulty variant: the scorecard's par and handicap replace the tees'
ApplyScorecardAlways(st, sc) ==
    IF sc.kind = "raise" THEN Raised(st)
    ELSE IF sc.kind = "none" THEN st
    ELSE [st EXCEPT
            !.par_data = ScorecardPar(sc.par),
            !.course_par = sc.par.total,
            !.handicap_data = sc.handicap,
            !.final_tees = MergeScorecardTees(sc.tee_yardages, @)]

\* lines 897-925: the embedded scorecard fills what the tees left open
ApplyScorecard(st, sc) ==
    IF sc.kind = "raise" THEN Raised(st)
    ELSE IF sc.kind = "none" THEN st
    ELSE [st EXCEPT
            !.par_data = IF IsNone(@) THEN ScorecardPar(sc.par) ELSE @,
            !.course_par = IF IsNone(st.par_data) THEN sc.par.total ELSE @,
            !.handicap_data = IF IsNone(@) THEN sc.handicap ELSE @,
            !.final_tees = MergeScorecardTees(sc.tee_yardages, @)]

\* key=lambda t: t.get("total_yardage") or 0
SortKey(t) == Or(t.total_yardage, I(0))

\* a faulty insertion: a tee goes before the tees of its own key
RECURSIVE InsertBeforeEqual(_, _)
InsertBeforeEqual(sorted, t) ==
    IF sorted = <<>> THEN <<t>>
    ELSE IF SortKey(sorted[1]).v > SortKey(t).v
    THEN <<sorted[1]>> \o InsertBeforeEqual(Tail(sorted), t)
    ELSE <<t>> \o sorted

\* sorted(..., reverse=True) is stable: a tee goes behind every tee whose
\* key is not smaller than its own
RECURSIVE InsertDesc(_, _)
InsertDesc(sorted, t) ==
    IF sorted = <<>> THEN <<t>>
    ELSE IF SortKey(sorted[1]).v >= SortKey(t).v
    THEN <<sorted[1]>> \o InsertDesc(Tail(sorted), t)
    ELSE <<t>> \o sorted

RECURSIVE SortTees(_, _)
SortTees(ts, sorted) ==
    IF ts = <<>> THEN sorted
    ELSE SortTees(Tail(ts), InsertDesc(sorted, ts[1]))

\* lines 927-946.  The keys are compared as numbers: with two or more tees
\* and a key that is not a number, sorted raises TypeError.
AssembleRecord(course_id, st, values) ==
    IF Len(values) > 1 /\ \E i \in 1..Len(values) : ~IsInt(SortKey(values[i]))
    THEN [kind |-> "raise"]
    ELSE [kind |-> "ok",
          id |-> course_id,
          holes |-> st.num_holes,
          par |-> IF ~IsNone(st.par_data) THEN st.par_data
                  ELSE [t |-> "par", total |-> st.course_par, front |-> Absent,
                        back |-> Absent, holes |-> Absent],
          tees |-> SortTees(values, <<>>),
          handicap |-> st.handicap_data]

AssembleScorecard(course_id, st) ==
    IF st.raised THEN [kind |-> "raise"]
    ELSE AssembleRecord(course_id, st,
                        [i \in 1..Len(st.final_tees) |-> st.final_tees[i].v])

\* lines 888-925
AssembleTees(course_id, course_obj, info, st) ==
    IF st.raised THEN [kind |-> "raise"]
    ELSE AssembleScorecard(course_id,
           ApplyScorecard([st EXCEPT !.final_tees = LayerTeeBoxes(info, @)],
                          ParseScorecard(Get(course_obj, kScorecard, None))))

\* lines 798-886; location.get (line 940) and tees_raw.get (line 825) raise
\* AttributeError on a value that is no dict
AssembleParts(course_id, course_obj, location, tees_raw, boxes) ==
    IF ~boxes.ok \/ ~IsDict(tees_raw) \/ ~IsDict(location) THEN [kind |-> "raise"]
    ELSE AssembleTees(course_id, course_obj, boxes.info,
                      GenderSections(tees_raw, GenderOrder, AssemblyState))

\* lines 789-792
AssembleObject(course_id, course_obj) ==
    IF ~IsDict(course_obj) THEN [kind |-> "raise"]
    ELSE AssembleParts(course_id, course_obj,
                       Get(course_obj, kLocation, D(<<>>)),
                       Get(course_obj, kTees, D(<<>>)),
                       TeeBoxInfo(course_obj))

\* lines 786-946: the record built from the provider's payload, or
\* [kind |-> "raise"] for an exception the handler's except clause catches.
\* (name, course_name, city and state are copied through and left out.)
AssembleCourse(course_id, raw) ==
    IF ~IsDict(raw) THEN [kind |-> "raise"]
    ELSE AssembleObject(course_id, Get(raw, kCourse, raw))

-----------------------------------------------------------------------------
(* Custom tees *)

\* a missing key of course_cache.json / custom_tees.json
NoEntry == [t |-> "noentry"]

\* a faulty variant: a custom value replaces the tee's whenever it is given
FillFromCustomAlways(t, ct) ==
    [t EXCEPT
       !.slope = IF Truthy(ct.slope) THEN ct.slope ELSE @,
       !.rating = IF Truthy(ct.rating) THEN ct.rating ELSE @,
       !.total_yardage = IF Truthy(ct.yardage) THEN ct.yardage ELSE @]

\* lines 975-980: a custom value fills a field only where the tee's is falsy
FillFromCustom(t, ct) ==
    [t EXCEPT
       !.slope = IF Truthy(ct.slope) /\ ~Truthy(@) THEN ct.slope ELSE @,
       !.rating = IF Truthy(ct.rating) /\ ~Truthy(@) THEN ct.rating ELSE @,
       !.total_yardage = IF Truthy(ct.yardage) /\ ~Truthy(@) THEN ct.yardage ELSE @]

\* lines 984-994: the tee appended for a custom tee no tee matches
CustomTee(ct) ==
    [name |-> ct.name,
     color |-> GuessTeeColor(ct.name),
     total_yardage |-> ct.yardage,
     front_yardage |-> None,
     back_yardage |-> None,
     hole_yardages |-> None,
     slope |-> ct.slope,
     rating |-> ct.rating,
     par |-> Absent,
     added_by_user |-> TRUE]

\* a faulty test: no custom tee is taken for an existing one
CustomNeverMatches(existing_names, ct_name) == FALSE

\* `if ct_name in existing_names` (line 971)
CustomMatches(existing_names, ct_name) == ct_name \in existing_names

\* lines 973-981: the first tee of that name is filled, then `break`
FillFirst(tees, hit, ct) ==
    IF hit = {} THEN tees ELSE [tees EXCEPT ![SetMin(hit)] = FillFromCustom(@, ct)]

\* a faulty variant: a tee is appended for a custom tee of an existing name,
\* too
MergeCustomTeeAppends(tees, existing_names, ct, ct_name) ==
    IF CustomMatches(existing_names, ct_name)
    THEN Append(FillFirst(tees, {i \in 1..Len(tees) : Lower(tees[i].name) = ct_name}, ct),
                CustomTee(ct))
    ELSE Append(tees, CustomTee(ct))

\* lines 970-994
MergeCustomTee(tees, existing_names, ct, ct_name) ==
    IF CustomMatches(existing_names, ct_name)
    THEN FillFirst(tees, {i \in 1..Len(tees) : Lower(tees[i].name) = ct_name}, ct)
    ELSE Append(tees, CustomTee(ct))

\* the loop of _merge_custom_tees (lines 969-994); existing_names is computed
\* once, before the loop
RECURSIVE MergeLoop(_, _, _)
MergeLoop(custom_tees, existing_names, tees) ==
    IF custom_tees = <<>> THEN tees
    ELSE MergeLoop(Tail(custom_tees), existing_names,
                   MergeCustomTee(tees, existing_names, custom_tees[1],
                                  Lower(custom_tees[1].name)))

\* _merge_custom_tees, given the store's entry for the course id
MergeCustomTees(entry, course_data) ==
    IF entry = NoEntry THEN course_data
    ELSE [course_data EXCEPT
            !.tees = MergeLoop(entry.tees,
                               {Lower(@[i].name) : i \in 1..Len(@)}, @)]

\* a faulty variant: the entry is appended whether or not the name is stored
UpsertAppend(existing, hit, tee_entry) == Append(existing, tee_entry)

UpsertAt(existing, hit, tee_entry) ==
    IF hit # {} THEN [existing EXCEPT ![SetMin(hit)] = tee_entry]
    ELSE Append(existing, tee_entry)

\* lines 1058-1066: replace the entry of the same lower-cased name, or append
UpsertTee(existing, tee_entry) ==
    UpsertAt(existing,
             {i \in 1..Len(existing) :
                Lower(existing[i].name) = Lower(tee_entry.name)},
             tee_entry)

-----------------------------------------------------------------------------
(* The stores and the request handlers *)

COURSE_CACHE_MAX_AGE_DAYS == 30

\* timedelta.days of a difference of clock readings; the clock counts
\* half-days
DaysOf(delta) == delta \div 2

\* the clock reading of 2000-01-01, the default of line 110: the clock
\* starts at 0 on 2026-01-01, 9497 days later
CachedAtDefault == -18994

\* entry.get("_cached_at", "2000-01-01") as a clock reading (line 110)
CachedAt(entry) ==
    IF "cached_at" \in DOMAIN entry THEN entry.cached_at ELSE CachedAtDefault

\* a faulty test: an entry of exactly COURSE_CACHE_MAX_AGE_DAYS days is fresh
FreshInclusive(entry, t) == DaysOf(t - CachedAt(entry)) <= COURSE_CACHE_MAX_AGE_DAYS

\* line 111
Fresh(entry, t) == DaysOf(t - CachedAt(entry)) < COURSE_CACHE_MAX_AGE_DAYS

\* _get_cached_course: the entry, or NoEntry for None
GetCachedCourse(c, course_id, t) ==
    IF c[course_id] # NoEntry /\ Fresh(c[course_id], t) THEN c[course_id]
    ELSE NoEntry

\* data["_cached_at"] = datetime.now().isoformat() (line 119)
Stamped(data, t) ==
    [kind |-> data.kind, id |-> data.id, holes |-> data.holes, par |-> data.par,
     tees |-> data.tees, handicap |-> data.handicap, cached_at |-> t]

\* _set_cached_course
SetCachedCourse(c, course_id, data) == [c EXCEPT ![course_id] = data]

\* a faulty order: the custom tees are merged in before the record is cached
CachedAfterMerge(c, entry, course_id, result) ==
    [cache |-> SetCachedCourse(c, course_id, MergeCustomTees(entry, result)),
     body |-> MergeCustomTees(entry, result)]

\* lines 948-949: the record is cached before the custom tees are merged in
\* (_merge_custom_tees changes `result` only after json.dump has written it)
CachedAndReturned(c, entry, course_id, result) ==
    [cache |-> SetCachedCourse(c, course_id, result),
     body |-> MergeCustomTees(entry, result)]

\* a faulty variant: the cache is left as it is
InvalidateNothing(c, course_id) == c

\* lines 1071-1074: the course's cache entry is deleted
Invalidate(c, course_id) == [c EXCEPT ![course_id] = NoEntry]

\* lines 1044-1068: the custom-tee store after the upsert
SavedStore(store, course_id, tee_entry) ==
    [store EXCEPT ![course_id] =
        [tees |-> UpsertTee(IF @ = NoEntry THEN <<>> ELSE @.tees, tee_entry)]]

\* lines 1050-1056
TeeEntry(data) ==
    [name |-> data.name.v, yardage |-> data.yardage,
     slope |-> data.slope, rating |-> data.rating]

NoBody == [kind |-> "nobody"]

\* a response of GET /api/courses/<id> and the cache it leaves
Answer(course_id, kind, path, body, c) ==
    [resp |-> [op |-> "get", id |-> course_id, kind |-> kind, path |-> path,
               body |-> body],
     cache |-> c]

\* lines 948-950
GetStored(course_id, out) ==
    Answer(course_id, "course", "fetched", out.body, out.cache)

\* lines 786-956: an exception during assembly is answered with an error
GetAssembled(course_id, result, c, entry, t) ==
    IF result.kind = "raise" THEN Answer(course_id, "error", "except", NoBody, c)
    ELSE GetStored(course_id,
                   CachedAndReturned(c, entry, course_id, Stamped(result, t)))

\* a faulty variant: a failed fetch drops the course's stale cache entry
GetFetchForgets(course_id, up, key, c, entry, t) ==
    IF ~key THEN Answer(course_id, "error", "nokey", NoBody, c)
    ELSE IF up.status # "200"
    THEN Answer(course_id, "error", "upstream", NoBody, Invalidate(c, course_id))
    ELSE GetAssembled(course_id, AssembleCourse(course_id, up.raw), c, entry, t)

\* lines 773-784
GetFetch(course_id, up, key, c, entry, t) ==
    IF ~key THEN Answer(course_id, "error", "nokey", NoBody, c)
    ELSE IF up.status # "200" THEN Answer(course_id, "error", "upstream", NoBody, c)
    ELSE GetAssembled(course_id, AssembleCourse(course_id, up.raw), c, entry, t)

\* a faulty hit: the cached record is returned as it is stored
GetCachedUnmerged(course_id, cached, up, key, c, entry, t) ==
    IF cached # NoEntry THEN Answer(course_id, "course", "hit", cached, c)
    ELSE GetFetch(course_id, up, key, c, entry, t)

\* lines 768-771
GetCached(course_id, cached, up, key, c, entry, t) ==
    IF cached # NoEntry
    THEN Answer(course_id, "course", "hit", MergeCustomTees(entry, cached), c)
    ELSE GetFetch(course_id, up, key, c, entry, t)

\* get_course_details: the response and the cache afterwards
GetCourse(course_id, up, key, c, store, t) ==
    GetCached(course_id, GetCachedCourse(c, course_id, t), up, key, c,
              store[course_id], t)

\* save_custom_tee (lines 1040-1076): the response and both stores afterwards
SaveTee(course_id, data, c, store) ==
    IF ~Truthy(data.name)
    THEN [resp |-> [op |-> "save", id |-> course_id, kind |-> "rejected",
                    path |-> "400", body |-> NoBody],
          cache |-> c, custom |-> store]
    ELSE [resp |-> [op |-> "save", id |-> course_id, kind |-> "saved",
                    path |-> "200", body |-> TeeEntry(data)],
          cache |-> Invalidate(c, course_id),
          custom |-> SavedStore(store, course_id, TeeEntry(data))]

-----------------------------------------------------------------------------
(* Inputs of the served system *)

CourseIds == {"c1", "c2"}

nBlue == <<"B","l","u","e">>
nblue == <<"b","l","u","e">>
nWhite == <<"W","h","i","t","e">>
nWHITE == <<"W","H","I","T","E">>
nRed == <<"R","e","d">>
nGold == <<"G","o","l","d">>
ngold == <<"g","o","l","d">>

\* a tees.male / tees.female entry
TeeOf(name, total_yards, slope, rating, holes) ==
    D(<<KV(kTeeName, S(name)), KV(kTotalYards, total_yards),
        KV(kSlopeRating, slope), KV(kCourseRating, rating), KV(kHoles, holes)>>)

\* a provider payload
PayloadOf(male, female, tee_boxes, scorecard) ==
    D(<<KV(kCourse,
           D(<<KV(kTees, D(<<KV(kMale, male), KV(kFemale, female)>>)),
               KV(kTeeBoxes, tee_boxes),
               KV(kScorecard, scorecard)>>))>>)

\* a row of a row-based scorecard with columns "1" and "2"
RowOf(label, c1, c2) ==
    D(<<KV(kHoleC, S(label)), KV(<<"1">>, S(c1)), KV(<<"2">>, S(c2))>>)

\* the scorecard of the spec's scenario: Par 4 5, Blue 380 410
ScenarioRows ==
    L(<<RowOf(kPar, <<"4">>, <<"5">>),
        RowOf(nBlue, <<"3","8","0">>, <<"4","1","0">>)>>)

\* Blue in both gender sections (6200 / 5400)
PayloadBlueTwice ==
    PayloadOf(L(<<TeeOf(nBlue, I(6200), I(120), I(70), L(<<>>))>>),
              L(<<TeeOf(nBlue, I(5400), I(125), I(72), L(<<>>))>>),
              None, None)

\* a tee without yardage, slope or rating, and a scorecard with two tees
PayloadSparse ==
    PayloadOf(L(<<TeeOf(nWhite, None, None, None, L(<<>>))>>), L(<<>>), None,
              L(<<RowOf(kPar, <<"4">>, <<"5">>),
                  RowOf(nRed, <<"3","0","0">>, <<"3","1","0">>),
                  RowOf(nWHITE, <<"3","5","0">>, <<"3","6","0">>)>>))

\* tees is null: the assembly raises
PayloadBroken == D(<<KV(kCourse, D(<<KV(kTees, None)>>))>>)

FetchPayloads == {PayloadBlueTwice, PayloadSparse, PayloadBroken}

\* what the GET to the provider can come to: a non-200 status or an
\* exception of requests.get, or a 200 with a payload
Upstream == {[status |-> "failed", raw |-> None]}
            \union {[status |-> "200", raw |-> p] : p \in FetchPayloads}

\* request bodies of POST /custom-tees
SaveInputs ==
    {[name |-> S(nblue), yardage |-> I(6000), slope |-> I(130), rating |-> I(71)],
     [name |-> S(nWHITE), yardage |-> I(5800), slope |-> I(128), rating |-> None],
     [name |-> S(nGold), yardage |-> I(5000), slope |-> None, rating |-> None],
     [name |-> S(ngold), yardage |-> None, slope |-> I(110), rating |-> I(69)],
     [name |-> S(<<>>), yardage |-> I(6000), slope |-> None, rating |-> None]}

MaxOps == 4
TickHalfDays == 30

-----------------------------------------------------------------------------
(* The served system: requests one at a time *)

Init ==
    /\ cache = [c \in CourseIds |-> NoEntry]
    /\ custom = [c \in CourseIds |-> NoEntry]
    /\ now = 0
    /\ api_key \in BOOLEAN
    /\ ops = 0
    /\ resp = [op |-> "none", id |-> "", kind |-> "none", path |-> "none",
               body |-> NoBody]
    /\ arg = None
    /\ ret = <<>>
    /\ pc = "serve"

Served(out) == resp' = out.resp /\ cache' = out.cache

\* GET /api/courses/<course_id>
GetCourseDetails(course_id) ==
    /\ pc = "serve"
    /\ ops < MaxOps
    /\ ops' = ops + 1
    /\ \E up \in Upstream :
         Served(GetCourse(course_id, up, api_key, cache, custom, now))
    /\ UNCHANGED <<custom, now, api_key, arg, ret, pc>>

Saved(out) == resp' = out.resp /\ cache' = out.cache /\ custom' = out.custom

\* POST /api/courses/<course_id>/custom-tees
SaveCustomTee(course_id) ==
    /\ pc = "serve"
    /\ ops < MaxOps
    /\ ops' = ops + 1
    /\ \E data \in SaveInputs : Saved(SaveTee(course_id, data, cache, custom))
    /\ UNCHANGED <<now, api_key, arg, ret, pc>>

\* time passes between requests
Tick ==
    /\ pc = "serve"
    /\ ops < MaxOps
    /\ ops' = ops + 1
    /\ now' = now + TickHalfDays
    /\ UNCHANGED <<cache, custom, api_key, resp, arg, ret, pc>>

Next ==
    \/ \E c \in CourseIds : GetCourseDetails(c)
    \/ \E c \in CourseIds : SaveCustomTee(c)
    \/ Tick

Spec == Init /\ [][Next]_vars

-----------------------------------------------------------------------------
(* Calls of a single function: the input is drawn in the initial state and
   the call leaves its result in ret *)

Call(inputs) ==
    /\ cache = [c \in CourseIds |-> NoEntry]
    /\ custom = [c \in CourseIds |-> NoEntry]
    /\ now = 0
    /\ api_key = TRUE
    /\ ops = 0
    /\ resp = [op |-> "none", id |-> "", kind |-> "none", path |-> "none",
               body |-> NoBody]
    /\ arg \in inputs
    /\ ret = <<>>
    /\ pc = "call"

\* what a call leaves alone
CallFrame == UNCHANGED <<cache, custom, now, api_key, ops, resp, arg>>

-----------------------------------------------------------------------------
(* _clean_tee_name on every short string over a letter, the blank, the colon
   and the parentheses *)

NameAlphabet == {"B", " ", ":", "(", ")"}
MaxNameLen == 5

\* the names of at most n characters
NameInputs(n) == SeqsUpTo(NameAlphabet, n)

InitClean == Call(NameInputs(MaxNameLen))

\* the name is cleaned, and the cleaned name is cleaned again
CleanTwice(x) == [once |-> x, twice |-> CleanTeeName(x)]

CallCleanTeeName ==
    /\ pc = "call"
    /\ ret' = CleanTwice(CleanTeeName(arg))
    /\ pc' = "done"
    /\ CallFrame

NextClean == CallCleanTeeName

SpecClean == InitClean /\ [][NextClean]_vars

\* C6 (as the specification states it): cleaning is idempotent,
\* _clean_tee_name(_clean_tee_name(x)) = _clean_tee_name(x) for every string x
C6_CleanIdempotent == pc = "done" => ret.twice = ret.once

-----------------------------------------------------------------------------
(* _guess_tee_color on names put together from colour words, keywords and
   other fragments *)

NameTokens ==
    {ColorScan[i] : i \in 1..Len(ColorScan)}
    \union {champ, tips, back, middle, senior, forward, ladies, bronze, copper}
    \union {<<"B","l","u","e">>, <<"G","O","L","D">>, <<"B","a","c","k"," ","T","e","e","s">>, <<" ">>, <<"b","l">>, <<"u","e">>}

MaxTokens == 2

RECURSIVE Concat(_)
Concat(ws) == IF ws = <<>> THEN <<>> ELSE ws[1] \o Concat(Tail(ws))

\* the names made of at most n tokens
ColorInputs(n) == {Concat(ws) : ws \in SeqsUpTo(NameTokens, n)}

InitColor == Call(ColorInputs(MaxTokens))

CallGuessTeeColor ==
    /\ pc = "call"
    /\ ret' = GuessTeeColor(arg)
    /\ pc' = "done"
    /\ CallFrame

NextColor == CallGuessTeeColor

SpecColor == InitColor /\ [][NextColor]_vars

\* the rules in the order the specification gives them: <<word, colour>>
ColorRules ==
    <<<<black, black>>, <<blue, blue>>, <<white, white>>, <<gold, gold>>,
      <<red, red>>, <<green, green>>, <<silver, silver>>, <<yellow, gold>>,
      <<champ, black>>, <<tips, black>>, <<back, blue>>, <<middle, white>>,
      <<senior, red>>, <<forward, red>>, <<ladies, red>>,
      <<bronze, gold>>, <<copper, gold>>>>

DisplayColors == {black, blue, white, gold, red, green, silver, gray}

RuleHits(name) == {i \in 1..Len(ColorRules) : Contains(name, ColorRules[i][1])}

FirstRuleOf(hits) == IF hits = {} THEN gray ELSE ColorRules[SetMin(hits)][2]

\* the colour of the first rule whose word occurs in the lower-cased name
FirstRule(name) == FirstRuleOf(RuleHits(Lower(name)))

\* the colour words that occur in the lower-cased name
ColorWordsIn(name) == {i \in 1..8 : Contains(Lower(name), ColorRules[i][1])}

\* C9: _guess_tee_color returns the colour of the first rule that matches in
\* the fixed order (colour words, yellow as gold, before the keyword
\* heuristics, gray when nothing matches); a name with a colour word gets a
\* colour word's colour whatever keywords it holds; the result is one of
\* black, blue, white, gold, red, green, silver, gray
C9_FirstRuleWins ==
    pc = "done" =>
        /\ ret = FirstRule(arg)
        /\ ret \in DisplayColors
        /\ ColorWordsIn(arg) # {} =>
               ret = ColorRules[SetMin(ColorWordsIn(arg))][2]

\* a name with a colour word and, before it, a keyword of another colour
C9_ColorWordBeatsKeyword ==
    /\ pc = "done"
    /\ arg = champ \o yellow
    /\ ret = gold

-----------------------------------------------------------------------------
(* _parse_scorecard on malformed values, row-based scorecards and per-hole
   scorecards *)

MaxRows == 2

\* a row of a row-based scorecard: the label under "Hole:" and hole columns
Row(label, cells) == D(<<KV(kHoleC, S(label))>> \o cells)

Cell(key, val) == KV(key, S(val))

RowLabels == {kPar, nBlue, <<"B","l","u","e",":">>, <<"R","e","d"," ","(","W",")">>, kHandicap}

RowCellSets ==
    {<<Cell(<<"1">>, <<"4">>), Cell(<<"2">>, <<"5">>)>>,
     <<Cell(<<"1">>, <<"3","8","0">>), Cell(<<"2">>, <<"4","1","0">>)>>,
     <<Cell(<<"9">>, <<"4","0","0">>), Cell(<<"1","0">>, <<"1","5","0">>),
       Cell(<<"1","1">>, <<"x">>)>>,
     <<KV(<<"1","0">>, I(5)), Cell(kOut, <<"3","6">>), Cell(<<"1">>, <<" ","3"," ">>)>>}

RowSet == {Row(label, cells) : label \in RowLabels, cells \in RowCellSets}

\* the row-based scorecards of at most n rows
RowScorecards(n) == {L(rows) : rows \in SeqsUpTo(RowSet, n) \ {<<>>}}

\* an entry of a per-hole scorecard
Entry(hole_num, p, h, tees) ==
    D(<<KV(kPar, p), KV(kHole, hole_num), KV(kTees, tees), KV(kHandicap, h)>>)

TeeBox1 == <<"t","e","e","B","o","x","1">>

\* the Handicap and the tees of an entry
EntryRests ==
    {<<I(3), D(<<>>)>>,
     <<None, D(<<KV(TeeBox1, D(<<KV(kColor, S(nBlue)), KV(kYards, I(380))>>))>>)>>}

EntrySet ==
    {Entry(I(n), p, rest[1], rest[2]) :
        n \in {1, 2, 10}, p \in {I(4), S(<<"5">>), None}, rest \in EntryRests}

\* the per-hole scorecards of at most n entries
PerHoleScorecards(n) == {L(rows) : rows \in SeqsUpTo(EntrySet, n) \ {<<>>}}

\* values the specification lists as malformed
MalformedScorecards ==
    {None, L(<<>>), I(5), D(<<>>),
     S(docTruncated), S(docObject), S(docNumber), S(docNull), S(docEmptyList),
     S(docParRow),
     L(<<I(5)>>), L(<<None>>), L(<<S(kPar)>>), L(<<L(<<>>)>>),
     L(<<D(<<KV(kHole, I(1))>>)>>),
     L(<<D(<<KV(kHoleC, None)>>)>>),
     L(<<D(<<KV(kHole, L(<<>>))>>)>>),
     L(<<D(<<KV(<<"1">>, S(<<"4">>))>>)>>),
     L(<<D(<<KV(kHoleC, S(kPar)), KV(<<"1">>, None), KV(<<"2">>, L(<<>>)),
             KV(<<"x">>, S(<<"4">>))>>)>>),
     L(<<Row(kPar, <<Cell(<<"1">>, <<"4">>)>>), I(5)>>),
     L(<<Row(kHole, <<Cell(<<"1">>, <<"1">>)>>), Row(kPar, <<Cell(<<"1">>, <<"4">>)>>),
         Row(nBlue, <<Cell(<<"1">>, <<"0">>), Cell(<<"2">>, <<"0">>)>>)>>),
     L(<<Entry(I(1), I(4), I(3),
               D(<<KV(TeeBox1, D(<<KV(kColor, S(nBlue)), KV(kYards, I(380))>>))>>))>>),
     L(<<Entry(I(1), I(4), None, D(<<>>)), Entry(S(<<"2">>), I(4), None, D(<<>>))>>),
     L(<<Entry(I(1), I(4), None, D(<<>>)), Entry(None, I(4), None, D(<<>>))>>),
     L(<<Entry(I(1), I(4), None, D(<<>>)), Entry(L(<<>>), I(4), I(3), D(<<>>))>>),
     L(<<Entry(I(1), S(<<"x">>), S(<<"x">>), D(<<>>))>>),
     L(<<Entry(I(1), I(4), None, None)>>),
     L(<<Entry(I(1), I(4), None, D(<<KV(TeeBox1, None)>>))>>),
     L(<<Entry(I(1), I(4), None,
               D(<<KV(TeeBox1, D(<<KV(kColor, I(7)), KV(kYards, I(380))>>))>>))>>),
     L(<<Entry(I(1), None, None,
               D(<<KV(TeeBox1, D(<<KV(kYards, S(<<"x">>))>>))>>))>>)}

\* lists whose first element is of one format and whose second is of
\* another, or of none
MixedScorecards ==
    {L(<<Entry(I(1), I(4), I(3), D(<<>>)),
         Row(kPar, <<Cell(<<"1">>, <<"4">>), Cell(<<"2">>, <<"5">>)>>)>>),
     L(<<Row(kPar, <<Cell(<<"1">>, <<"4">>), Cell(<<"2">>, <<"5">>)>>),
         Entry(I(1), I(4), None, D(<<>>))>>),
     L(<<Row(kPar, <<Cell(<<"1">>, <<"4">>), Cell(<<"2">>, <<"5">>)>>),
         D(<<KV(kPar, I(3)), KV(kTees, D(<<>>))>>)>>),
     L(<<D(<<KV(<<"1">>, S(<<"4">>))>>),
         Row(kPar, <<Cell(<<"1">>, <<"4">>), Cell(<<"2">>, <<"5">>)>>)>>),
     L(<<D(<<KV(kTees, D(<<>>)), KV(kPar, I(4))>>), Entry(I(1), I(4), I(3), D(<<>>))>>),
     L(<<D(<<KV(kHole, S(kPar)), KV(kTees, D(<<>>)), KV(<<"1">>, S(<<"4">>))>>),
         Entry(None, I(4), None, D(<<>>))>>)}

ScorecardInputs(n) ==
    MalformedScorecards \union MixedScorecards \union RowScorecards(n)
    \union PerHoleScorecards(n)

InitScorecard == Call(ScorecardInputs(MaxRows))

CallParseScorecard ==
    /\ pc = "call"
    /\ ret' = ParseScorecard(arg)
    /\ pc' = "done"
    /\ CallFrame

NextScorecard == CallParseScorecard

SpecScorecard == InitScorecard /\ [][NextScorecard]_vars

\* C5 (as the specification states it): for every raw scorecard value, null,
\* empty list, malformed JSON text, JSON that is not a list, a list whose
\* first element is not a record, records with labels or hole values of
\* other types, _parse_scorecard returns a parsed result or None and never
\* raises
C5_NeverRaises == pc = "done" => ret.kind \in {"ok", "none"}

\* the scorecard is a non-empty list whose first element selects the format
IsFormat(raw, fmt) ==
    /\ IsList(raw)
    /\ Len(raw.v) > 0
    /\ IsDict(raw.v[1])
    /\ DetectFormat(raw.v[1]) = fmt

\* the first n elements of xs, and the elements after them
FirstN(xs, n) == SubSeq(xs, 1, IF Len(xs) < n THEN Len(xs) ELSE n)
AfterN(xs, n) == SubSeq(xs, n + 1, Len(xs))

\* front, back and total re-derived from the returned hole_yardages
TeeConsistent(tee) ==
    /\ tee.front_yardage = SumSeq(FirstN(tee.hole_yardages, 9))
    /\ tee.back_yardage = SumSeq(AfterN(tee.hole_yardages, 9))
    /\ tee.total_yardage = tee.front_yardage + tee.back_yardage

\* the result for the scenario Par {1:4, 2:5}, Blue {1:380, 2:410}
ScenarioResult(r) ==
    /\ r.kind = "ok"
    /\ r.par.holes = <<4, 5>>
    /\ r.num_holes = 2
    /\ Len(r.tee_yardages) = 1
    /\ r.tee_yardages[1].k = nBlue
    /\ r.tee_yardages[1].v.total_yardage = 790
    /\ r.tee_yardages[1].v.front_yardage = 790
    /\ r.tee_yardages[1].v.back_yardage = 0

\* C7: for every row-based scorecard _parse_scorecard accepts, each returned
\* tee has front_yardage = the sum of the first 9 entries of its
\* hole_yardages, back_yardage = the sum of the remaining entries and
\* total_yardage = front_yardage + back_yardage; the Par 4 5 / Blue 380 410
\* scorecard gives par.holes [4,5], Blue 790 / 790 / 0 and num_holes 2
C7_RowTotalsConsistent ==
    pc = "done" /\ IsFormat(arg, "row") /\ ret.kind = "ok" =>
        /\ \A i \in 1..Len(ret.tee_yardages) : TeeConsistent(ret.tee_yardages[i].v)
        /\ arg = ScenarioRows => ScenarioResult(ret)

\* the scenario has been parsed
C7_ScenarioParsed ==
    pc = "done" /\ arg = ScenarioRows /\ ScenarioResult(ret)

\* the entries of a per-hole scorecard that give hole h a Par / a Handicap
\* that int() accepts
ParEntries(entries, h) ==
    {i \in 1..Len(entries) :
        Get(entries[i], kHole, None) = I(h) /\ ParseInt(Get(entries[i], kPar, None)).ok}
HandicapEntries(entries, h) ==
    {i \in 1..Len(entries) :
        Get(entries[i], kHole, None) = I(h)
        /\ ParseInt(Get(entries[i], kHandicap, None)).ok}

ParOf(entry) == ParseInt(Get(entry, kPar, None)).v
HandicapOf(entry) == ParseInt(Get(entry, kHandicap, None)).v

\* the sum of the Par fields of all entries
RECURSIVE SumOfPars(_)
SumOfPars(entries) ==
    IF entries = <<>> THEN 0
    ELSE (IF ParseInt(Get(entries[1], kPar, None)).ok THEN ParOf(entries[1]) ELSE 0)
         + SumOfPars(Tail(entries))

IntOrZero(x) == IF IsInt(x) THEN x.v ELSE 0

LastPar(entries, h) ==
    IF ParEntries(entries, h) = {} THEN 0
    ELSE ParOf(entries[SetMax(ParEntries(entries, h))])
LastHandicap(entries, h) ==
    IF HandicapEntries(entries, h) = {} THEN None
    ELSE I(HandicapOf(entries[SetMax(HandicapEntries(entries, h))]))

RECURSIVE SumLastPars(_, _)
SumLastPars(entries, n) ==
    IF n <= 0 THEN 0 ELSE LastPar(entries, n) + SumLastPars(entries, n - 1)

-----------------------------------------------------------------------------
(* The assembly of a course record (get_course_details on a cache miss) on
   payloads whose gender sections are drawn from a few tees *)

MaxTees == 2

\* a hole of a tee's "holes" array
HoleOf(y, p, h) == D(<<KV(kYardage, y), KV(par, p), KV(handicap, h)>>)

\* a tees.male / tees.female entry with a par_total
Tee(name, total_yards, slope, rating, par_total, holes) ==
    D(<<KV(kTeeName, S(name)), KV(kTotalYards, total_yards),
        KV(kSlopeRating, slope), KV(kCourseRating, rating),
        KV(kParTotal, par_total), KV(kHoles, holes)>>)

GenderTeeSet ==
    {Tee(nBlue, I(6200), I(120), I(70), I(72), L(<<>>)),
     Tee(<<" ","b","l","u","e",":">>, I(5400), I(125), I(72), I(71), L(<<>>)),
     Tee(<<"B","L","U","E"," ","(","W",")">>, None, None, None, None,
         L(<<HoleOf(I(380), I(4), I(3)), HoleOf(I(410), I(5), I(1))>>)),
     Tee(nWhite, I(5800), None, None, I(70), L(<<HoleOf(I(350), I(4), None)>>))}

\* the gender sections of at most n tees
GenderLists(n) == {L(ts) : ts \in SeqsUpTo(GenderTeeSet, n)}

TeeBoxLists ==
    {None,
     L(<<D(<<KV(kName, S(nblue)), KV(kSlope, I(130)), KV(kRating, I(73))>>)>>)}

AssembleInputs(n) ==
    FetchPayloads \union
    {PayloadOf(male, female, boxes, scorecard) :
        male \in GenderLists(n), female \in GenderLists(n),
        boxes \in TeeBoxLists, scorecard \in {None, ScenarioRows}}

InitAssemble == Call(AssembleInputs(MaxTees))

CallAssembleCourse ==
    /\ pc = "call"
    /\ ret' = AssembleCourse("c1", arg)
    /\ pc' = "done"
    /\ CallFrame

NextAssemble == CallAssembleCourse

SpecAssemble == InitAssemble /\ [][NextAssemble]_vars

\* the tees of a payload in iteration order: tees.male, then tees.female
SectionOf(raw, gender) == Get(Get(Get(raw, kCourse, raw), kTees, D(<<>>)), gender, L(<<>>)).v
Occurrences(raw) == SectionOf(raw, kMale) \o SectionOf(raw, kFemale)

\* the key a tee is stored under
KeyOf(t) == Lower(CleanTeeName(Get(t, kTeeName, S(Unknown)).v))

\* the first tee of the payload with that key
OccurrencesOf(occ, key) == {i \in 1..Len(occ) : KeyOf(occ[i]) = key}
FirstOccurrence(occ, key) == occ[SetMin(OccurrencesOf(occ, key))]

RECURSIVE SumYardages(_)
SumYardages(holes) ==
    IF holes = <<>> THEN 0
    ELSE Get(holes[1], kYardage, I(0)).v + SumYardages(Tail(holes))

\* the assembled tee has the yardage, par, slope and rating of payload tee t
\* (a slope or rating t does not give may come from the tee boxes)
KeepsValuesOf(tee, t) ==
    /\ tee.total_yardage =
           Or(Get(t, kTotalYards, None), I(SumYardages(Get(t, kHoles, L(<<>>)).v)))
    /\ tee.par = Get(t, kParTotal, None)
    /\ Truthy(Get(t, kSlopeRating, None)) => tee.slope = Get(t, kSlopeRating, None)
    /\ Truthy(Get(t, kCourseRating, None)) => tee.rating = Get(t, kCourseRating, None)

KeepsFirst(tee, occ) ==
    OccurrencesOf(occ, Lower(tee.name)) # {} =>
        KeepsValuesOf(tee, FirstOccurrence(occ, Lower(tee.name)))

\* the payload without the later occurrences of a tee name
RECURSIVE FirstsFrom(_, _, _)
FirstsFrom(occ, i, hi) ==
    IF i > hi THEN <<>>
    ELSE (IF \E j \in 1..(i - 1) : KeyOf(occ[j]) = KeyOf(occ[i]) THEN <<>>
          ELSE <<occ[i]>>)
         \o FirstsFrom(occ, i + 1, hi)

WithoutLater(raw, occ, males) ==
    PayloadOf(L(FirstsFrom(occ, 1, males)), L(FirstsFrom(occ, males + 1, Len(occ))),
              Get(Get(raw, kCourse, raw), kTeeBoxes, None),
              Get(Get(raw, kCourse, raw), kScorecard, None))

\* C1: when a tee name (case-insensitive, after cleaning) occurs more than
\* once in tees.male and tees.female, the assembled tee keeps the yardage,
\* slope, rating and par of the first occurrence (male before female) and
\* every later occurrence is dropped: the record is the one assembled from
\* the payload without them, and holds one tee of that name
C1_FirstOccurrenceWins ==
    pc = "done" /\ ret.kind = "ok" =>
        /\ \A i \in 1..Len(ret.tees) : KeepsFirst(ret.tees[i], Occurrences(arg))
        /\ \A i, j \in 1..Len(ret.tees) :
             Lower(ret.tees[i].name) = Lower(ret.tees[j].name) => i = j
        /\ ret = AssembleCourse("c1", WithoutLater(arg, Occurrences(arg),
                                                   Len(SectionOf(arg, kMale))))

\* male Blue 6200 and female Blue 5400 give one Blue tee of 6200
C1_BlueTwice ==
    /\ pc = "done"
    /\ arg = PayloadBlueTwice
    /\ ret.kind = "ok"
    /\ Len(ret.tees) = 1
    /\ ret.tees[1].name = nBlue
    /\ ret.tees[1].total_yardage = I(6200)
    /\ ret.tees[1].slope = I(120)

-----------------------------------------------------------------------------
(* _merge_custom_tees on records with a Blue tee and stored custom tees *)

MaxCustom == 2

\* a tee of a course record
RecordTee(name, total_yardage, slope, rating) ==
    [name |-> name, color |-> GuessTeeColor(name), total_yardage |-> total_yardage,
     front_yardage |-> I(0), back_yardage |-> I(0), hole_yardages |-> None,
     slope |-> slope, rating |-> rating, par |-> None, added_by_user |-> FALSE]

BlueTees ==
    {RecordTee(nBlue, y, sl, r) :
        y \in {None, I(0), I(6200)}, sl \in {None, I(120)}, r \in {None, I(70)}}

WhiteTee == RecordTee(nWhite, I(5800), I(118), None)

RecordOf(tees) ==
    [kind |-> "ok", id |-> "c1", holes |-> I(18),
     par |-> [t |-> "par", total |-> None, front |-> Absent, back |-> Absent,
              holes |-> Absent],
     tees |-> tees, handicap |-> None]

MergeRecords ==
    {RecordOf(<<b>>) : b \in BlueTees} \union {RecordOf(<<WhiteTee, b>>) : b \in BlueTees}

\* an entry of the custom-tee store
CustomOf(name, yardage, slope, rating) ==
    [name |-> name, yardage |-> yardage, slope |-> slope, rating |-> rating]

CustomValues ==
    {<<I(6000), I(130), I(71)>>, <<None, None, None>>,
     <<None, I(130), None>>, <<I(6000), None, I(71)>>}

CustomSet ==
    {CustomOf(name, x[1], x[2], x[3]) :
        name \in {nblue, <<"B","L","U","E">>, nGold, nWHITE}, x \in CustomValues}

\* the store keeps one entry per lower-cased name
CustomLists(n) ==
    {cts \in SeqsUpTo(CustomSet, n) :
        \A i, j \in 1..Len(cts) : Lower(cts[i].name) = Lower(cts[j].name) => i = j}

MergeInputs(n) ==
    {[course_data |-> rec, entry |-> NoEntry] : rec \in MergeRecords}
    \union {[course_data |-> rec, entry |-> [tees |-> cts]] :
               rec \in MergeRecords, cts \in CustomLists(n)}

InitMerge == Call(MergeInputs(MaxCustom))

CallMergeCustomTees ==
    /\ pc = "call"
    /\ ret' = MergeCustomTees(arg.entry, arg.course_data)
    /\ pc' = "done"
    /\ CallFrame

NextMerge == CallMergeCustomTees

SpecMerge == InitMerge /\ [][NextMerge]_vars

\* the stored custom tees that match the tee's name
MatchesOf(entry, tee) ==
    IF entry = NoEntry THEN {}
    ELSE {entry.tees[i] : i \in {j \in 1..Len(entry.tees) :
                                   Lower(entry.tees[j].name) = Lower(tee.name)}}

\* a field that has a value (not null, not 0) keeps it; one that has none
\* keeps none or takes the value a matching custom tee gives
FieldKept(old, new, given) ==
    IF Truthy(old) THEN new = old
    ELSE new = old \/ (new \in given /\ Truthy(new))

TeeKept(old, new, cts) ==
    /\ new.name = old.name
    /\ new.color = old.color
    /\ new.front_yardage = old.front_yardage
    /\ new.back_yardage = old.back_yardage
    /\ new.hole_yardages = old.hole_yardages
    /\ new.par = old.par
    /\ new.added_by_user = old.added_by_user
    /\ FieldKept(old.slope, new.slope, {ct.slope : ct \in cts})
    /\ FieldKept(old.rating, new.rating, {ct.rating : ct \in cts})
    /\ FieldKept(old.total_yardage, new.total_yardage, {ct.yardage : ct \in cts})

\* C2: for every record and every stored custom tee whose name matches an
\* existing tee case-insensitively, _merge_custom_tees leaves each of the
\* tee's slope, rating and total_yardage unchanged when it has a value (not
\* null and not 0) and only fills the ones that are missing; slope 120
\* merged with custom slope 130 stays 120
C2_NeverOverwrites ==
    pc = "done" =>
        /\ Len(ret.tees) >= Len(arg.course_data.tees)
        /\ \A i \in 1..Len(arg.course_data.tees) :
             TeeKept(arg.course_data.tees[i], ret.tees[i],
                     MatchesOf(arg.entry, arg.course_data.tees[i]))

\* Blue with slope 120 and without a rating, merged with custom blue
\* 6000 / 130 / 71: the slope stays, the rating is filled
C2_SlopeStays ==
    /\ pc = "done"
    /\ arg.course_data = RecordOf(<<RecordTee(nBlue, I(6200), I(120), None)>>)
    /\ arg.entry = [tees |-> <<CustomOf(nblue, I(6000), I(130), I(71))>>]
    /\ ret.tees[1].slope = I(120)
    /\ ret.tees[1].rating = I(71)
    /\ ret.tees[1].total_yardage = I(6200)

-----------------------------------------------------------------------------
(* Properties of the served system *)

\* the records the assembly makes of the provider's payloads
AssembledRecords ==
    {r \in {AssembleCourse(c, p) : c \in CourseIds, p \in FetchPayloads} :
        r.kind = "ok"}

\* a cache entry without its time stamp
Unstamped(e) ==
    [kind |-> e.kind, id |-> e.id, holes |-> e.holes, par |-> e.par,
     tees |-> e.tees, handicap |-> e.handicap]

HasUserTee(tees) == \E i \in 1..Len(tees) : tees[i].added_by_user

\* C3: after any sequence of get_course_details (hit or miss) and
\* save_custom_tee, a course's cache entry holds no tee flagged
\* added_by_user and no value of a custom tee: it is the record assembled
\* from a provider payload, as it was before the custom tees were merged
\* into the response
C3_CacheHoldsNoCustomData ==
    \A c \in CourseIds :
        cache[c] # NoEntry =>
            /\ ~HasUserTee(cache[c].tees)
            /\ cache[c].id = c
            /\ Unstamped(cache[c]) \in AssembledRecords

\* a cache hit answered with a custom tee merged in, the entry still cached
C3_HitWithCustomTee ==
    /\ resp.op = "get"
    /\ resp.path = "hit"
    /\ HasUserTee(resp.body.tees)
    /\ cache[resp.id] # NoEntry
    /\ Unstamped(cache[resp.id]) # Unstamped(resp.body)

\* the step is a request for course c: ops counts it, the clock stands, and
\* the response is the request's
SaveStep(c) ==
    ops' = ops + 1 /\ now' = now /\ resp'.op = "save" /\ resp'.id = c
GetStep(c) ==
    ops' = ops + 1 /\ now' = now /\ resp'.op = "get" /\ resp'.id = c

\* the response of a get that asked the provider
FetchPaths == {"fetched", "upstream", "except"}

\* a successful save deletes the cache entry of its course and no other
SaveDeletesEntry(c) ==
    SaveStep(c) /\ resp'.kind = "saved" =>
        /\ cache'[c] = NoEntry
        /\ \A o \in CourseIds \ {c} : cache'[o] = cache[o]

\* only a get of course c writes an entry for c
OnlyGetCaches(c) ==
    cache[c] = NoEntry /\ cache'[c] # NoEntry => GetStep(c)

\* C4 (as the specification states it): when save_custom_tee(c) completes
\* successfully the cache holds no entry for c, the other entries are
\* unchanged, and the next get_course_details(c) serves no cached record but
\* performs an upstream fetch
C4_SaveThenFetch ==
    [][\A c \in CourseIds :
         /\ SaveDeletesEntry(c)
         /\ resp.op = "save" /\ resp.kind = "saved" /\ resp.id = c /\ GetStep(c) =>
                resp'.path \in FetchPaths]_vars

\* C4 (amended): a successful save_custom_tee(c) deletes the cache entry of
\* c and leaves the other entries unchanged; the entry stays absent until a
\* get_course_details(c), and that get serves no cached record: it performs
\* an upstream fetch when the API key is set and answers with the
\* missing-key error, without a fetch, when it is not
C4_SaveInvalidates ==
    [][\A c \in CourseIds :
         /\ SaveDeletesEntry(c)
         /\ OnlyGetCaches(c)
         /\ cache[c] = NoEntry /\ GetStep(c) =>
                /\ resp'.path # "hit"
                /\ api_key => resp'.path \in FetchPaths
                /\ ~api_key => resp'.path = "nokey"]_vars

\* a save has just deleted nothing of the other course's entry, and holds
\* no entry of its own course
C4_SavedAndInvalidated ==
    /\ resp.op = "save"
    /\ resp.kind = "saved"
    /\ cache[resp.id] = NoEntry
    /\ \E o \in CourseIds \ {resp.id} : cache[o] # NoEntry

DistinctNames(tees) ==
    \A i, j \in 1..Len(tees) : Lower(tees[i].name) = Lower(tees[j].name) => i = j

\* C10: after any sequence of save_custom_tee and get_course_details, every
\* course record get_course_details returns has pairwise distinct tee names
\* under lower-casing, wherever its tees came from
C10_DistinctTeeNames ==
    resp.kind = "course" => DistinctNames(resp.body.tees)

\* a returned record with a tee a stored custom tee matches, and a tee that
\* was added from the custom tees
C10_MatchedAndAdded ==
    /\ resp.kind = "course"
    /\ HasUserTee(resp.body.tees)
    /\ \E i \in 1..Len(resp.body.tees) :
         /\ ~resp.body.tees[i].added_by_user
         /\ \E k \in 1..Len(custom[resp.id].tees) :
              Lower(custom[resp.id].tees[k].name) = Lower(resp.body.tees[i].name)

-----------------------------------------------------------------------------
(* The assembly of a course record on payloads that set the sources of a
   field against each other: tee-level fields, the tee boxes, the scorecard *)

MaxLayerTees == 3

nBlack == <<"B","l","a","c","k">>
nSilver == <<"S","i","l","v","e","r">>

\* ten holes of 400 yards and par 4, without handicaps
TenHoles == [i \in 1..10 |-> HoleOf(I(400), I(4), None)]

\* Blue: total_yards, slope_rating, course_rating and par_total, no holes
LayerBlue == Tee(nBlue, I(6200), I(120), I(70), I(72), L(<<>>))

\* "Gold:": two holes with yardage, par and handicap, and a "slope" field
LayerGold ==
    D(<<KV(kTeeName, S(<<"G","o","l","d",":">>)), KV(kSlope, I(118)),
        KV(kHoles, L(<<HoleOf(I(300), I(4), I(1)), HoleOf(I(150), I(3), I(2))>>))>>)

\* Red: a name and nothing else
LayerRed == D(<<KV(kTeeName, S(nRed))>>)

\* White: a par_total and one hole that gives a handicap only
LayerWhite ==
    D(<<KV(kTeeName, S(nWhite)), KV(kParTotal, I(70)),
        KV(kHoles, L(<<D(<<KV(handicap, I(5))>>)>>))>>)

\* Black: total_yards 7000 next to ten holes of 400
LayerBlack == Tee(nBlack, I(7000), None, None, None, L(TenHoles))

LayerTeeSet == {LayerBlue, LayerGold, LayerRed, LayerWhite, LayerBlack}

\* tee boxes for blue and gold, and one for a tee no section has
LayerBoxes ==
    L(<<D(<<KV(kName, S(nblue)), KV(kSlope, I(130)), KV(kRating, I(73))>>),
        D(<<KV(kTeeName, S(<<"G","O","L","D"," ","(","M",")">>)),
            KV(kSlopeRating, I(125)), KV(kCourseRating, I(71))>>),
        D(<<KV(kName, S(copper)), KV(kSlope, I(111))>>)>>)

\* a row-based scorecard with the columns "1" and "10"
LayerRow(label, c1, c10) ==
    Row(label, <<Cell(<<"1">>, c1), Cell(<<"1","0">>, c10)>>)

LayerRows ==
    L(<<LayerRow(kPar, <<"5">>, <<"4">>),
        LayerRow(kHandicap, <<"7">>, <<"8">>),
        LayerRow(nBlue, <<"3","8","0">>, <<"4","1","0">>),
        LayerRow(nSilver, <<"2","0","0">>, <<"2","5","0">>),
        LayerRow(nGold, <<"3","1","0">>, <<"1","6","0">>)>>)

\* the lists of at most n different tees
LayerTeeLists(n) ==
    {ts \in SeqsUpTo(LayerTeeSet, n) : \A i, j \in 1..Len(ts) : i < j => ts[i] # ts[j]}

\* the payloads whose male and female sections together hold at most n tees,
\* each tee once (repeated names are the subject of SpecAssemble)
LayerInputs(n) ==
    UNION {{PayloadOf(L(SubSeq(ts, 1, k)), L(SubSeq(ts, k + 1, Len(ts))), boxes, sc) :
               k \in 0..Len(ts), boxes \in {None, LayerBoxes}, sc \in {None, LayerRows}} :
           ts \in LayerTeeLists(n)}

InitLayers == Call(LayerInputs(MaxLayerTees))

CallAssembleLayers ==
    /\ pc = "call"
    /\ ret' = AssembleCourse("c1", arg)
    /\ pc' = "done"
    /\ CallFrame

NextLayers == CallAssembleLayers

SpecLayers == InitLayers /\ [][NextLayers]_vars

\* a yardage that is known: a number above 0
KnownYards(x) == IsInt(x) /\ x.v > 0

\* C11 (as the specification states it): every tee of an assembled record
\* whose front_yardage and back_yardage are both known has total_yardage =
\* front_yardage + back_yardage, also when the provider's total_yards comes
\* with a per-hole array and when the per-hole data is the scorecard's
C11_TotalIsFrontPlusBack ==
    pc = "done" /\ ret.kind = "ok" =>
        \A i \in 1..Len(ret.tees) :
            KnownYards(ret.tees[i].front_yardage) /\ KnownYards(ret.tees[i].back_yardage) =>
                ret.tees[i].total_yardage =
                    I(ret.tees[i].front_yardage.v + ret.tees[i].back_yardage.v)

\* the keys of xs followed by those of more that are not among them yet
RECURSIVE AppendNew(_, _)
AppendNew(keys, more) ==
    IF more = <<>> THEN keys
    ELSE IF \E i \in 1..Len(keys) : keys[i] = more[1] THEN AppendNew(keys, Tail(more))
    ELSE AppendNew(Append(keys, more[1]), Tail(more))

\* the scorecard a payload embeds, parsed
ScorecardOf(raw) == ParseScorecard(Get(Get(raw, kCourse, raw), kScorecard, None))

\* the lower-cased names of the tees a parsed scorecard lists, in its order
ScorecardKeys(sc) ==
    IF sc.kind = "ok" THEN [i \in 1..Len(sc.tee_yardages) |-> Lower(sc.tee_yardages[i].k)]
    ELSE <<>>

\* the order in which the tees of a payload enter the record: the gendered
\* tees (male, then female; a repeated name only once), then the tees only
\* the scorecard lists
InsertionKeys(raw) ==
    AppendNew(AppendNew(<<>>, [i \in 1..Len(Occurrences(raw)) |-> KeyOf(Occurrences(raw)[i])]),
              ScorecardKeys(ScorecardOf(raw)))

PositionOf(keys, key) == CHOOSE i \in 1..Len(keys) : keys[i] = key

\* total_yardage, a missing one counted as 0
TotalOrZero(tee) == IF IsInt(tee.total_yardage) THEN tee.total_yardage.v ELSE 0

SortedStable(tees, keys) ==
    /\ Len(tees) = Len(keys)
    /\ \A i \in 1..Len(tees) : \E k \in 1..Len(keys) : keys[k] = Lower(tees[i].name)
    /\ \A i, j \in 1..Len(tees) :
         i < j =>
           /\ TotalOrZero(tees[i]) >= TotalOrZero(tees[j])
           /\ TotalOrZero(tees[i]) = TotalOrZero(tees[j]) =>
                PositionOf(keys, Lower(tees[i].name)) < PositionOf(keys, Lower(tees[j].name))

\* C12: the tee list of the record get_course_details assembles is ordered
\* by total_yardage descending, a missing total counted as 0, and tees of
\* equal total_yardage keep their relative insertion order
C12_SortedByTotalYardage ==
    pc = "done" /\ ret.kind = "ok" => SortedStable(ret.tees, InsertionKeys(arg))

\* three tees or more, two of them of equal total_yardage, and the tee that
\* was inserted first is not the first of the list
C12_TieAndReordered ==
    /\ pc = "done"
    /\ ret.kind = "ok"
    /\ Len(ret.tees) >= 3
    /\ \E i \in 1..(Len(ret.tees) - 1) :
         TotalOrZero(ret.tees[i]) = TotalOrZero(ret.tees[i + 1])
    /\ Lower(ret.tees[1].name) # InsertionKeys(arg)[1]

-----------------------------------------------------------------------------
(* get_course_details on a cache file that holds an entry of some age, or an
   entry without a time stamp *)

MaxAgeHalfDays == 61

\* the record of a course as the assembly leaves it, without "_cached_at"
UnstampedEntry == AssembleCourse("c1", PayloadBlueTwice)

\* what course_cache.json can hold for c1: nothing, an entry stamped when
\* the clock read 0, or an entry without a time stamp
FreshEntries == {NoEntry, Stamped(UnstampedEntry, 0), UnstampedEntry}

InitFresh ==
    /\ cache \in {[c \in CourseIds |-> IF c = "c1" THEN e ELSE NoEntry] : e \in FreshEntries}
    /\ custom = [c \in CourseIds |-> NoEntry]
    /\ now \in 0..MaxAgeHalfDays
    /\ api_key \in BOOLEAN
    /\ ops = 0
    /\ resp = [op |-> "none", id |-> "", kind |-> "none", path |-> "none",
               body |-> NoBody]
    /\ arg = None
    /\ ret = <<>>
    /\ pc = "serve"

NextFresh == \E c \in CourseIds : GetCourseDetails(c)

SpecFresh == InitFresh /\ [][NextFresh]_vars

\* the entry of c exists, carries a time stamp, and less than 30 days (60
\* half-days) have passed since
UnderThirtyDays(c) ==
    /\ cache[c] # NoEntry
    /\ "cached_at" \in DOMAIN cache[c]
    /\ now - cache[c].cached_at < 60

\* a get of c answers from the cache exactly when the entry is under 30
\* days old, and then with the stored entry
ServedIffFresh(c) ==
    GetStep(c) =>
        /\ resp'.path = "hit" <=> UnderThirtyDays(c)
        /\ resp'.path = "hit" => resp'.body = cache[c] /\ cache' = cache

\* C13 (as the specification states it): _get_cached_course returns the
\* stored entry if and only if an entry exists and now - cached_at is
\* strictly less than 30 days; an entry of 30 days or more, or one without
\* a time stamp, is never served, and get_course_details then goes to the
\* upstream provider
C13_StaleGoesUpstream ==
    [][\A c \in CourseIds :
         /\ ServedIffFresh(c)
         /\ GetStep(c) /\ ~UnderThirtyDays(c) => resp'.path \in FetchPaths]_vars

\* C13 (amended): _get_cached_course returns the stored entry if and only
\* if an entry exists and now - cached_at is strictly less than 30 days; an
\* entry of 30 days or more, or one without a time stamp, is never served,
\* and get_course_details then goes to the upstream provider when the API
\* key is set and answers with the missing-key error, without a fetch, when
\* it is not
C13_ServedIffUnderThirtyDays ==
    [][\A c \in CourseIds :
         /\ ServedIffFresh(c)
         /\ GetStep(c) /\ ~UnderThirtyDays(c) =>
                /\ api_key => resp'.path \in FetchPaths
                /\ ~api_key => resp'.path = "nokey"]_vars

\* an entry of 29 and a half days has been served, the clock at 59 half-days
C13_ServedOnLastHalfDay ==
    /\ now = 59
    /\ resp.op = "get"
    /\ resp.path = "hit"
    /\ cache[resp.id] # NoEntry
    /\ "cached_at" \in DOMAIN cache[resp.id]
    /\ cache[resp.id].cached_at = 0

-----------------------------------------------------------------------------
(* The custom-tee store under save_custom_tee *)

\* the tees the store holds for a course
StoredTees(store, c) == IF store[c] = NoEntry THEN <<>> ELSE store[c].tees

\* the entries of a list of stored tees whose lower-cased name is not key
RECURSIVE WithoutName(_, _)
WithoutName(tees, key) ==
    IF tees = <<>> THEN <<>>
    ELSE (IF Lower(tees[1].name) = key THEN <<>> ELSE <<tees[1]>>)
         \o WithoutName(Tail(tees), key)

\* after holds entry, once, as the only entry of its lower-cased name, and
\* the entries of other names are those of before, in their order
UpsertedInto(before, after, entry) ==
    /\ DistinctNames(after)
    /\ \E i \in 1..Len(after) : after[i] = entry
    /\ WithoutName(after, Lower(entry.name)) = WithoutName(before, Lower(entry.name))
    /\ Len(after) = Len(WithoutName(before, Lower(entry.name))) + 1

\* C14: after any sequence of successful save_custom_tee calls the store
\* holds for each course id at most one entry per case-insensitive tee name,
\* and that entry is exactly the most recently saved entry of that name (all
\* four fields replaced, not merged); a save leaves the entries of other
\* names and of other course ids unchanged
C14_UpsertByName ==
    [][\A c \in CourseIds :
         SaveStep(c) /\ resp'.kind = "saved" =>
            /\ UpsertedInto(StoredTees(custom, c), StoredTees(custom', c), resp'.body)
            /\ \A o \in CourseIds \ {c} : custom'[o] = custom[o]]_vars

\* the store holds two tees for the course and the entry just saved is the
\* first of them: the save has replaced an entry
C14_Replaced ==
    /\ resp.op = "save"
    /\ resp.kind = "saved"
    /\ Len(StoredTees(custom, resp.id)) = 2
    /\ StoredTees(custom, resp.id)[1] = resp.body
    /\ resp.body.name = ngold

-----------------------------------------------------------------------------
(* Saved tees in the responses of get_course_details *)

\* the tees of a list whose lower-cased name is key
NamedTees(tees, key) == {i \in 1..Len(tees) : Lower(tees[i].name) = key}

\* a tee as _merge_custom_tees adds it for a stored tee: flagged, with the
\* stored name and values and without front, back and per-hole yardage
AddedFor(tee, ct) ==
    /\ tee.added_by_user
    /\ tee.name = ct.name
    /\ tee.total_yardage = ct.yardage
    /\ tee.slope = ct.slope
    /\ tee.rating = ct.rating
    /\ tee.front_yardage = None
    /\ tee.back_yardage = None
    /\ tee.hole_yardages = None

\* a tee of the response that is the provider's or the scorecard's tee
ExistingFor(tee, assembled) ==
    /\ ~tee.added_by_user
    /\ \E j \in 1..Len(assembled) :
         /\ tee.name = assembled[j].name
         /\ tee.front_yardage = assembled[j].front_yardage
         /\ tee.back_yardage = assembled[j].back_yardage
         /\ tee.hole_yardages = assembled[j].hole_yardages

\* the response holds the stored tee ct: as a new flagged tee exactly when
\* the assembled record has no tee of that name, else as the existing tee
HoldsSaved(body, assembled, ct) ==
    /\ NamedTees(body, Lower(ct.name)) # {}
    /\ \A i \in NamedTees(body, Lower(ct.name)) :
         IF NamedTees(assembled, Lower(ct.name)) = {}
         THEN AddedFor(body[i], ct)
         ELSE ExistingFor(body[i], assembled)

\* C15: after save_custom_tee(course_id, name) succeeded, every later
\* successful get_course_details(course_id) response, cache hit or miss,
\* contains a tee whose name equals name case-insensitively: a new entry
\* flagged added_by_user with null front, back and per-hole yardage exactly
\* when no provider or scorecard tee has that name, and otherwise the
\* existing tee without the flag.  (The store holds the names saved so far;
\* the cache entry of the course is the record assembled from the provider
\* and the scorecard.)
C15_SavedTeeInEveryResponse ==
    resp.op = "get" /\ resp.kind = "course" =>
        \A k \in 1..Len(StoredTees(custom, resp.id)) :
            HoldsSaved(resp.body.tees, cache[resp.id].tees,
                       StoredTees(custom, resp.id)[k])

\* a cache hit after two saves: one saved tee was added, the other is a tee
\* of the provider
C15_HitAfterSaves ==
    /\ resp.op = "get"
    /\ resp.path = "hit"
    /\ Len(StoredTees(custom, resp.id)) = 2
    /\ \E k \in 1..2 : NamedTees(cache[resp.id].tees, Lower(StoredTees(custom, resp.id)[k].name)) = {}
    /\ \E k \in 1..2 : NamedTees(cache[resp.id].tees, Lower(StoredTees(custom, resp.id)[k].name)) # {}

-----------------------------------------------------------------------------
(* The format of a scorecard *)

\* the format the first element of a scorecard selects: an integer "Hole"
\* together with "tees" is per-hole, else a "Hole" or "Hole:" field is
\* row-based, else there is no data
FormatOfFirst(first) ==
    CASE IsInt(Get(first, kHole, None)) /\ HasKey(first, kTees) -> "perhole"
      [] ~(IsInt(Get(first, kHole, None)) /\ HasKey(first, kTees))
         /\ (HasKey(first, kHole) \/ HasKey(first, kHoleC)) -> "row"
      [] OTHER -> "none"

\* a scorecard that is a non-empty list with a record as its first element
HasFirstRecord(raw) == IsList(raw) /\ Len(raw.v) > 0 /\ IsDict(raw.v[1])

\* C16: _parse_scorecard classifies the payload by its first element only:
\* an integer Hole field together with a tees field selects per-hole
\* parsing, otherwise a Hole or Hole: field selects row-based parsing,
\* otherwise the result is None; the result is that of the selected parser
\* on the whole list, whatever the later elements are
C16_FirstElementSelects ==
    pc = "done" /\ HasFirstRecord(arg) =>
        /\ FormatOfFirst(arg.v[1]) = "none" => ret.kind = "none"
        /\ FormatOfFirst(arg.v[1]) = "perhole" =>
              ret = BuildScorecard(ParseScorecardPerholeFormat(arg.v, ParseState))
        /\ FormatOfFirst(arg.v[1]) = "row" =>
              ret = BuildScorecard(ParseScorecardRowFormat(arg.v, ParseState))

\* a per-hole entry followed by a row: parsed per hole, the row left out
C16_EntryThenRow ==
    /\ pc = "done"
    /\ HasFirstRecord(arg)
    /\ Len(arg.v) = 2
    /\ FormatOfFirst(arg.v[1]) = "perhole"
    /\ FormatOfFirst(arg.v[2]) = "row"
    /\ ret.kind = "ok"
    /\ ret.par.holes = <<4>>

\* the par, handicap and yardage maps the selected parser collects
CollectedFrom(rows, fmt) ==
    IF fmt = "perhole" THEN ParseScorecardPerholeFormat(rows, ParseState)
    ELSE ParseScorecardRowFormat(rows, ParseState)

\* the hole numbers seen across the par data, the handicap data and the
\* yardage data of all tees
HolesSeen(st) ==
    (DOMAIN st.par_holes) \union (DOMAIN st.handicap_holes) \union
    UNION {DOMAIN st.tee_yardages[i].v : i \in 1..Len(st.tee_yardages)}

RangeCovers(r, st) ==
    /\ r.num_holes = SetMax(HolesSeen(st))
    /\ Len(r.par.holes) = r.num_holes
    /\ \A i \in 1..Len(r.tee_yardages) : Len(r.tee_yardages[i].v.hole_yardages) = r.num_holes
    /\ DOMAIN st.handicap_holes # {} =>
         /\ r.handicap # None
         /\ Len(r.handicap.v) = r.num_holes
         /\ \A h \in DOMAIN st.handicap_holes : r.handicap.v[h] = I(st.handicap_holes[h])

\* C17 (as the specification states it): in the result of _parse_scorecard,
\* num_holes and the lengths of par.holes, of the handicap sequence and of
\* every tee's hole_yardages equal the maximum hole number seen across the
\* par data, the handicap data and all tee yardage data; a handicap given
\* for a hole above every par and yardage hole extends the range and
\* appears in the handicap sequence
C17_RangeIsMaxHoleSeen ==
    pc = "done" /\ HasFirstRecord(arg) /\ ret.kind = "ok" =>
        RangeCovers(ret, CollectedFrom(arg.v, FormatOfFirst(arg.v[1])))

-----------------------------------------------------------------------------
(* Par, handicap, slope and rating of an assembled record and their sources *)

\* the gendered tees of a payload in iteration order, a repeated name only
\* at its first occurrence
FirstTees(raw) == FirstsFrom(Occurrences(raw), 1, Len(Occurrences(raw)))

\* the per-hole pars and handicaps a gendered tee gives
HolesOfTee(t) == Get(t, kHoles, L(<<>>)).v
ParsOf(t) == [i \in 1..Len(HolesOfTee(t)) |-> Get(HolesOfTee(t)[i], par, I(0))]
HandicapsOf(t) == [i \in 1..Len(HolesOfTee(t)) |-> Get(HolesOfTee(t)[i], handicap, None)]

\* the tees with non-zero per-hole par data, and those with a handicap
ParTees(ts) == {i \in 1..Len(ts) : \E h \in 1..Len(ParsOf(ts[i])) : ParsOf(ts[i])[h].v > 0}
HandicapTees(ts) ==
    {i \in 1..Len(ts) : \E h \in 1..Len(HandicapsOf(ts[i])) : HandicapsOf(ts[i])[h] # None}

\* par and handicap of the record are those of tee t, where t gives them
ParAndHandicapOf(r, t) ==
    /\ r.par.holes = L(ParsOf(t))
    /\ (\E h \in 1..Len(HandicapsOf(t)) : HandicapsOf(t)[h] # None) =>
           r.handicap = L(HandicapsOf(t))

\* C18 (as the specification states it): the record's par structure and its
\* handicap sequence are both taken from the same tee, the first gendered
\* tee in iteration order (male list, then female list) that has non-zero
\* per-hole par data; once set, no later tee and no scorecard data changes
\* either of them
C18_ParAndHandicapOfOneTee ==
    pc = "done" /\ ret.kind = "ok" /\ ParTees(FirstTees(arg)) # {} =>
        ParAndHandicapOf(ret, FirstTees(arg)[SetMin(ParTees(FirstTees(arg)))])

\* the tee boxes of a payload, and name, slope and rating of a tee box
BoxesOf(raw) == Or(Get(Get(raw, kCourse, raw), kTeeBoxes, None), L(<<>>)).v
BoxKey(tb) == Lower(CleanTeeName(Get(tb, kName, Get(tb, kTeeName, S(<<>>))).v))
BoxSlope(tb) == Or(Get(tb, kSlope, None), Get(tb, kSlopeRating, None))
BoxRating(tb) == Or(Get(tb, kRating, None), Get(tb, kCourseRating, None))

\* the tee boxes of a cleaned lower-cased name; the last one counts
BoxesNamed(boxes, key) == {i \in 1..Len(boxes) : BoxKey(boxes[i]) = key}

\* slope and rating a gendered tee gives in its own fields
OwnSlope(t) == Or(Get(t, kSlopeRating, None), Get(t, kSlope, None))
OwnRating(t) == Or(Get(t, kCourseRating, None), Get(t, kRating, None))

\* a value of the tee's own fields stays; a missing one is the tee box's
Layered(own, boxed, value) ==
    IF Truthy(own) THEN value = own
    ELSE IF Truthy(boxed) THEN value = boxed
    ELSE value = own

LayeredTee(tee, t, boxes, named) ==
    /\ Layered(OwnSlope(t), IF named = {} THEN None ELSE BoxSlope(boxes[SetMax(named)]),
               tee.slope)
    /\ Layered(OwnRating(t), IF named = {} THEN None ELSE BoxRating(boxes[SetMax(named)]),
               tee.rating)

\* every tee of the record that a gendered tee made is layered, and a tee
\* box of a name outside keys has made no tee
TeeBoxLayered(r, ts, boxes, keys) ==
    /\ \A i \in 1..Len(r.tees) :
         \A k \in 1..Len(ts) :
            KeyOf(ts[k]) = Lower(r.tees[i].name) =>
               LayeredTee(r.tees[i], ts[k], boxes, BoxesNamed(boxes, Lower(r.tees[i].name)))
    /\ \A b \in 1..Len(boxes) :
         (\A k \in 1..Len(keys) : keys[k] # BoxKey(boxes[b])) =>
             NamedTees(r.tees, BoxKey(boxes[b])) = {}

\* C19: a tee's slope (rating) is set from the tee-box entry of the same
\* lower-cased cleaned name only if the tee has no slope (rating) from its
\* own tee-level fields; a value taken from slope_rating / slope or
\* course_rating / rating of the gendered tee is never overwritten, and a
\* tee-box entry whose name matches no gendered tee creates no tee
C19_TeeBoxOnlyFills ==
    pc = "done" /\ ret.kind = "ok" =>
        TeeBoxLayered(ret, FirstTees(arg), BoxesOf(arg), InsertionKeys(arg))

\* Blue keeps its slope 120 next to the tee box's 130, Gold keeps its slope
\* 118 and takes the rating 71 of its tee box, and the tee box "copper" has
\* made no tee
C19_KeptAndFilled ==
    /\ pc = "done"
    /\ ret.kind = "ok"
    /\ Len(BoxesOf(arg)) = 3
    /\ \E i \in 1..Len(ret.tees) :
         ret.tees[i].name = nBlue /\ ret.tees[i].slope = I(120) /\ ret.tees[i].rating = I(70)
    /\ \E i \in 1..Len(ret.tees) :
         ret.tees[i].name = nGold /\ ret.tees[i].slope = I(118) /\ ret.tees[i].rating = I(71)
    /\ NamedTees(ret.tees, copper) = {}

\* the payload without its scorecard
WithoutScorecard(raw) ==
    PayloadOf(L(SectionOf(raw, kMale)), L(SectionOf(raw, kFemale)),
              Get(Get(raw, kCourse, raw), kTeeBoxes, None), None)

\* par (handicap) is the gendered tees' where they give one, and the
\* scorecard's where they give none and the scorecard parses
GenderedFirst(r, ts, gendered, sc) ==
    /\ ParTees(ts) # {} =>
         /\ r.par = gendered.par
         /\ r.par.holes = L(ParsOf(ts[SetMin(ParTees(ts))]))
    /\ ParTees(ts) = {} /\ sc.kind = "ok" => r.par = ScorecardPar(sc.par)
    /\ HandicapTees(ts) # {} =>
         /\ r.handicap = gendered.handicap
         /\ r.handicap = L(HandicapsOf(ts[SetMin(HandicapTees(ts))]))
    /\ HandicapTees(ts) = {} /\ sc.kind = "ok" => r.handicap = sc.handicap

\* C20: par and handicap parsed from the embedded scorecard are used for
\* the record only when the gendered-tee pass left the respective one
\* unset; when a gendered tee supplied the per-hole par (the handicap), the
\* record's par (handicap) is the gendered tee's, the same as without the
\* scorecard
C20_ScorecardOnlyFills ==
    pc = "done" /\ ret.kind = "ok" =>
        GenderedFirst(ret, FirstTees(arg), AssembleCourse("c1", WithoutScorecard(arg)),
                      ScorecardOf(arg))

\* a record with the par 4 3 of the Gold tee and its handicap 1 2, the
\* scorecard giving par 5 4 and handicap 7 8
C20_TeeBeatsScorecard ==
    /\ pc = "done"
    /\ ret.kind = "ok"
    /\ ScorecardOf(arg).kind = "ok"
    /\ ScorecardOf(arg).par.holes[1] = 5
    /\ ret.par.holes = L(<<I(4), I(3)>>)
    /\ ret.handicap = L(<<I(1), I(2)>>)

-----------------------------------------------------------------------------
(* The tees of the embedded scorecard in the assembled record *)

\* the tee of a list with the lower-cased name key
TeeOfKey(tees, key) == tees[CHOOSE i \in 1..Len(tees) : Lower(tees[i].name) = key]

\* a field is the earlier one, or the earlier one was missing and the field
\* is the scorecard's
FilledIfMissing(value, earlier, fresh) ==
    \/ value = earlier
    \/ ~Truthy(earlier) /\ value = fresh

\* the per-hole yardages of a scorecard tee as a list value
YardList(yard_data) ==
    L([i \in 1..Len(yard_data.hole_yardages) |-> I(yard_data.hole_yardages[i])])

\* tee is the earlier tee, enriched by the scorecard's yard_data
EnrichedBy(tee, earlier, yard_data) ==
    /\ tee.name = earlier.name
    /\ tee.color = earlier.color
    /\ tee.total_yardage = earlier.total_yardage
    /\ tee.slope = earlier.slope
    /\ tee.rating = earlier.rating
    /\ FilledIfMissing(tee.hole_yardages, earlier.hole_yardages, YardList(yard_data))
    /\ FilledIfMissing(tee.front_yardage, earlier.front_yardage, I(yard_data.front_yardage))
    /\ FilledIfMissing(tee.back_yardage, earlier.back_yardage, I(yard_data.back_yardage))
    /\ ~Truthy(earlier.hole_yardages) => tee.hole_yardages = YardList(yard_data)

\* tee is sourced from the scorecard alone
SourcedFrom(tee, tee_name, yard_data) ==
    /\ tee.name = tee_name
    /\ tee.total_yardage = I(yard_data.total_yardage)
    /\ tee.front_yardage = I(yard_data.front_yardage)
    /\ tee.back_yardage = I(yard_data.back_yardage)
    /\ tee.hole_yardages = YardList(yard_data)
    /\ tee.slope = None
    /\ tee.rating = None

\* every tee of the scorecard is in the record r, enriching the tee of its
\* name in the record without scorecard or as a tee of its own
ScorecardTeesIn(r, earlier, items) ==
    \A i \in 1..Len(items) :
       /\ Cardinality(NamedTees(r.tees, Lower(items[i].k))) = 1
       /\ IF NamedTees(earlier.tees, Lower(items[i].k)) # {}
          THEN EnrichedBy(TeeOfKey(r.tees, Lower(items[i].k)),
                          TeeOfKey(earlier.tees, Lower(items[i].k)), items[i].v)
          ELSE SourcedFrom(TeeOfKey(r.tees, Lower(items[i].k)), items[i].k, items[i].v)

\* C21: for each tee parsed from the embedded scorecard: when a tee of the
\* same lower-cased name is in the record already, its hole_yardages,
\* front_yardage and back_yardage are filled from the scorecard only where
\* missing, and its total_yardage, slope, rating and colour stay; otherwise
\* a new tee carries the scorecard's per-hole, front, back and total yardage
\* with slope and rating null
C21_ScorecardTeeFillsOrAdds ==
    pc = "done" /\ ret.kind = "ok" /\ ScorecardOf(arg).kind = "ok" =>
        ScorecardTeesIn(ret, AssembleCourse("c1", WithoutScorecard(arg)),
                        ScorecardOf(arg).tee_yardages)

\* Blue (6200, slope 120, no holes) has taken front 380 and back 410 from
\* the scorecard, Gold has kept its own front 450 next to the scorecard's
\* 310, and Silver is a tee of the scorecard alone
C21_FilledKeptAndAdded ==
    /\ pc = "done"
    /\ ret.kind = "ok"
    /\ \E i \in 1..Len(ret.tees) :
         /\ ret.tees[i].name = nBlue
         /\ ret.tees[i].total_yardage = I(6200)
         /\ ret.tees[i].slope = I(120)
         /\ ret.tees[i].front_yardage = I(380)
         /\ ret.tees[i].back_yardage = I(410)
    /\ \E i \in 1..Len(ret.tees) :
         /\ ret.tees[i].name = nGold
         /\ ret.tees[i].front_yardage = I(450)
         /\ ret.tees[i].hole_yardages = L(<<I(300), I(150)>>)
    /\ \E i \in 1..Len(ret.tees) :
         /\ ret.tees[i].name = nSilver
         /\ ret.tees[i].total_yardage = I(450)
         /\ ret.tees[i].slope = None

-----------------------------------------------------------------------------
(* get_course_details on provider payloads with missing and wrongly shaped
   nested fields *)

MaxMalformedHoles == 2

\* a dict item, or none for a key the dict does not carry
Field(k, v) == IF v = Absent THEN <<>> ELSE <<KV(k, v)>>

\* an entry of a holes array: complete, without yardage and par, with a null
\* yardage, with a null par, and a number in place of the entry
HoleShapes ==
    {HoleOf(I(300), I(4), I(1)),
     D(<<>>),
     D(<<KV(kYardage, None), KV(par, I(4))>>),
     D(<<KV(kYardage, I(300)), KV(par, None)>>),
     I(7)}

\* a tee's holes: missing, null, a number, or a list of at most n entries
HolesShapes(n) == {Absent, None, I(5)} \union {L(hs) : hs \in SeqsUpTo(HoleShapes, n)}

\* a gender section: missing, null, a number, a null in place of the tee, or
\* the tee Blue with its holes
SectionShapes(n) ==
    {Absent, None, I(1), L(<<None>>)}
      \union {L(<<D(<<KV(kTeeName, S(nBlue))>> \o Field(kHoles, holes))>>) :
                 holes \in HolesShapes(n)}

\* tees: missing, null, a list, or the dict of its sections
TeesShapes(n) ==
    {Absent, None, L(<<>>)}
      \union {D(Field(kMale, male)) : male \in SectionShapes(n)}

\* teeBoxes: missing, null, empty, a number, a dict, and lists with a named
\* entry, an entry without name, a null entry and a number
TeeBoxesShapes ==
    {Absent, None, L(<<>>), I(4), D(<<KV(kName, S(nblue))>>),
     L(<<D(<<KV(kName, S(nblue)), KV(kSlope, I(130))>>)>>),
     L(<<D(<<KV(kSlope, I(130))>>)>>),
     L(<<None>>),
     L(<<I(3)>>)}

MalformedPayloads(n) ==
    {D(<<KV(kCourse, D(Field(kTees, tees) \o Field(kTeeBoxes, boxes)))>>) :
        tees \in TeesShapes(n), boxes \in TeeBoxesShapes}

InitMalformed ==
    /\ cache = [c \in CourseIds |-> NoEntry]
    /\ custom = [c \in CourseIds |-> NoEntry]
    /\ now = 0
    /\ api_key = TRUE
    /\ ops = 0
    /\ resp = [op |-> "none", id |-> "", kind |-> "none", path |-> "none",
               body |-> NoBody]
    /\ arg \in MalformedPayloads(MaxMalformedHoles)
    /\ ret = <<>>
    /\ pc = "serve"

\* GET /api/courses/c1, the provider answering 200 with the payload
GetMalformed ==
    /\ pc = "serve"
    /\ ops = 0
    /\ ops' = 1
    /\ Served(GetCourse("c1", [status |-> "200", raw |-> arg], api_key, cache, custom, now))
    /\ UNCHANGED <<custom, now, api_key, arg, ret, pc>>

NextMalformed == GetMalformed

SpecMalformed == InitMalformed /\ [][NextMalformed]_vars

\* C22 (as the specification states it): for every provider payload that
\* comes with status 200, also one where tees, a gender section, a holes
\* array, a hole's yardage or par, or a teeBoxes entry is missing, null or of
\* the wrong shape, get_course_details answers with a course record and
\* writes it to the cache; it never answers with an error object
C22_MalformedGivesRecord ==
    resp.op = "get" =>
        /\ resp.kind = "course"
        /\ cache["c1"] # NoEntry

-----------------------------------------------------------------------------
(* One tee under differently written names: the provider's tee Blue, a tee
   box, a scorecard row and a saved custom tee that write the name in
   another way *)

\* Blue in another case, between blanks, with a trailing colon, with a
\* trailing parenthetical, and with both
NameVariants ==
    {nBlue, nblue, <<" ","B","l","u","e"," ">>, <<"B","l","u","e",":">>,
     <<"B","l","u","e"," ","(","2","0","2","3",")">>,
     <<"B","L","U","E"," ","(","M",")",":">>}

NoName == <<>>

\* the provider's payload: the tee Blue, and a tee box and a scorecard row
\* for the names given
JoinPayload(box, row) ==
    PayloadOf(L(<<TeeOf(nBlue, I(6200), None, None, L(<<>>))>>), L(<<>>),
              IF box = NoName THEN None
              ELSE L(<<D(<<KV(kName, S(box)), KV(kSlope, I(130)), KV(kRating, I(73))>>)>>),
              IF row = NoName THEN None
              ELSE L(<<RowOf(kPar, <<"4">>, <<"5">>),
                       RowOf(row, <<"3","8","0">>, <<"4","1","0">>)>>))

InitJoin ==
    /\ cache = [c \in CourseIds |-> NoEntry]
    /\ custom = [c \in CourseIds |-> NoEntry]
    /\ now = 0
    /\ api_key = TRUE
    /\ ops = 0
    /\ resp = [op |-> "none", id |-> "", kind |-> "none", path |-> "none",
               body |-> NoBody]
    /\ arg \in [box : NameVariants \union {NoName}, row : NameVariants \union {NoName},
                saved : NameVariants]
    /\ ret = <<>>
    /\ pc = "serve"

\* POST /api/courses/c1/custom-tees with the name arg.saved
SaveJoin ==
    /\ pc = "serve"
    /\ ops = 0
    /\ ops' = 1
    /\ Saved(SaveTee("c1", [name |-> S(arg.saved), yardage |-> I(6000),
                            slope |-> I(125), rating |-> I(71)],
                     cache, custom))
    /\ UNCHANGED <<now, api_key, arg, ret, pc>>

\* GET /api/courses/c1 after it
GetJoin ==
    /\ pc = "serve"
    /\ ops = 1
    /\ ops' = 2
    /\ Served(GetCourse("c1", [status |-> "200", raw |-> JoinPayload(arg.box, arg.row)],
                        api_key, cache, custom, now))
    /\ UNCHANGED <<custom, now, api_key, arg, ret, pc>>

NextJoin == SaveJoin \/ GetJoin

SpecJoin == InitJoin /\ [][NextJoin]_vars

\* C23 (as the specification states it): tee data of all sources is joined
\* on the lower-cased cleaned tee name: a tee box, a scorecard tee or a saved
\* custom tee whose name differs from the provider tee's only by case,
\* surrounding blanks, a trailing colon or a trailing parenthetical is
\* matched to that tee, and the response holds the one tee Blue
C23_JoinedOnCleanedName ==
    resp.op = "get" /\ resp.kind = "course" =>
        /\ Len(resp.body.tees) = 1
        /\ resp.body.tees[1].name = nBlue

-----------------------------------------------------------------------------
(* Two requests served at the same time.  A request reads and writes
   course_cache.json and custom_tees.json as whole files: every read and
   every write of a file is one step, and the steps of the two requests
   interleave.  Here pc, ret and resp hold one value per request: the
   position, the dict the request holds in memory, and the response; arg
   holds the two requests and the cache they started on. *)

RaceIds == {"c1", "c2", "c3"}
RaceProcs == {1, 2}

\* the cached record of a course, stamped at time 0
RaceEntry(course_id) == Stamped(AssembleCourse(course_id, PayloadBlueTwice), 0)

GetRequest(course_id) == [op |-> "get", id |-> course_id, data |-> NoBody]
SaveRequest(course_id, name) ==
    [op |-> "save", id |-> course_id,
     data |-> [name |-> S(name), yardage |-> I(5000), slope |-> None, rating |-> None]]

RaceRequests ==
    {GetRequest("c1"), GetRequest("c2"),
     SaveRequest("c1", nGold), SaveRequest("c1", nRed), SaveRequest("c2", nGold)}

\* the caches the requests can start on
RaceCaches ==
    {[c \in RaceIds |-> IF c \in held THEN RaceEntry(c) ELSE NoEntry] : held \in SUBSET RaceIds}

NoMemory == [file |-> <<>>, result |-> NoEntry]

InitRace ==
    /\ arg \in [reqs : [RaceProcs -> RaceRequests], cache : RaceCaches]
    /\ cache = arg.cache
    /\ custom = [c \in RaceIds |-> NoEntry]
    /\ now = 0
    /\ api_key = TRUE
    /\ ops = 0
    /\ resp = [i \in RaceProcs |-> NoBody]
    /\ ret = [i \in RaceProcs |-> NoMemory]
    /\ pc = [i \in RaceProcs |-> "start"]

RaceFrame == UNCHANGED <<now, api_key, ops, arg>>

\* line 767: _get_cached_course reads the cache file
GetLookup(i) ==
    /\ arg.reqs[i].op = "get"
    /\ pc[i] = "start"
    /\ ret' = [ret EXCEPT ![i].result = GetCachedCourse(cache, arg.reqs[i].id, now)]
    /\ pc' = [pc EXCEPT ![i] =
                IF GetCachedCourse(cache, arg.reqs[i].id, now) # NoEntry THEN "hit"
                ELSE "fetch"]
    /\ UNCHANGED <<cache, custom, resp>>
    /\ RaceFrame

\* lines 777-946: the provider answers, the record is assembled; then
\* _set_cached_course reads the cache file (line 118)
GetSetRead(i) ==
    /\ pc[i] = "fetch"
    /\ ret' = [ret EXCEPT ![i] =
                 [file |-> cache,
                  result |-> AssembleCourse(arg.reqs[i].id, PayloadBlueTwice)]]
    /\ pc' = [pc EXCEPT ![i] = "set"]
    /\ UNCHANGED <<cache, custom, resp>>
    /\ RaceFrame

\* lines 119-121: the dict read, with the stamped record under the course
\* id, is written as the cache file
GetSetWrite(i) ==
    /\ pc[i] = "set"
    /\ cache' = SetCachedCourse(ret[i].file, arg.reqs[i].id, Stamped(ret[i].result, now))
    /\ ret' = [ret EXCEPT ![i].result = Stamped(@, now)]
    /\ pc' = [pc EXCEPT ![i] = "fetched"]
    /\ UNCHANGED <<custom, resp>>
    /\ RaceFrame

\* lines 770 and 949: _merge_custom_tees reads the custom-tee file, and the
\* request is answered
GetMerge(i) ==
    /\ pc[i] \in {"hit", "fetched"}
    /\ resp' = [resp EXCEPT ![i] =
                  [op |-> "get", id |-> arg.reqs[i].id, kind |-> "course", path |-> pc[i],
                   body |-> MergeCustomTees(custom[arg.reqs[i].id], ret[i].result)]]
    /\ pc' = [pc EXCEPT ![i] = "done"]
    /\ UNCHANGED <<cache, custom, ret>>
    /\ RaceFrame

\* line 1044: save_custom_tee reads the custom-tee file
SaveRead(i) ==
    /\ arg.reqs[i].op = "save"
    /\ pc[i] = "start"
    /\ ret' = [ret EXCEPT ![i].file = custom]
    /\ pc' = [pc EXCEPT ![i] = "upsert"]
    /\ UNCHANGED <<cache, custom, resp>>
    /\ RaceFrame

\* lines 1045-1068: the dict read, with the tee upserted, is written as the
\* custom-tee file
SaveWrite(i) ==
    /\ pc[i] = "upsert"
    /\ custom' = SavedStore(ret[i].file, arg.reqs[i].id, TeeEntry(arg.reqs[i].data))
    /\ pc' = [pc EXCEPT ![i] = "saved"]
    /\ UNCHANGED <<cache, resp, ret>>
    /\ RaceFrame

SaveAnswer(i) ==
    [op |-> "save", id |-> arg.reqs[i].id, kind |-> "saved", path |-> "200",
     body |-> TeeEntry(arg.reqs[i].data)]

\* lines 1071-1072: the cache file is read; without an entry of the course
\* the request is answered
SaveInvalidateRead(i) ==
    /\ pc[i] = "saved"
    /\ ret' = [ret EXCEPT ![i].file = cache]
    /\ IF cache[arg.reqs[i].id] = NoEntry
       THEN /\ pc' = [pc EXCEPT ![i] = "done"]
            /\ resp' = [resp EXCEPT ![i] = SaveAnswer(i)]
       ELSE /\ pc' = [pc EXCEPT ![i] = "invalidate"]
            /\ UNCHANGED resp
    /\ UNCHANGED <<cache, custom>>
    /\ RaceFrame

\* lines 1073-1076: the dict read, without the entry of the course, is
\* written as the cache file, and the request is answered
SaveInvalidateWrite(i) ==
    /\ pc[i] = "invalidate"
    /\ cache' = Invalidate(ret[i].file, arg.reqs[i].id)
    /\ resp' = [resp EXCEPT ![i] = SaveAnswer(i)]
    /\ pc' = [pc EXCEPT ![i] = "done"]
    /\ UNCHANGED <<custom, ret>>
    /\ RaceFrame

NextRace ==
    \/ \E i \in RaceProcs : GetLookup(i)
    \/ \E i \in RaceProcs : GetSetRead(i)
    \/ \E i \in RaceProcs : GetSetWrite(i)
    \/ \E i \in RaceProcs : GetMerge(i)
    \/ \E i \in RaceProcs : SaveRead(i)
    \/ \E i \in RaceProcs : SaveWrite(i)
    \/ \E i \in RaceProcs : SaveInvalidateRead(i)
    \/ \E i \in RaceProcs : SaveInvalidateWrite(i)

SpecRace == InitRace /\ [][NextRace]_vars

\* both requests are answered
BothDone == \A i \in RaceProcs : pc[i] = "done"

\* two requests for the details of different courses, both missing the
\* cache and fetching
TwoFetches ==
    /\ BothDone
    /\ arg.reqs[1].id # arg.reqs[2].id
    /\ \A i \in RaceProcs : arg.reqs[i].op = "get" /\ resp[i].path = "fetched"

\* C24 (as the specification states it): a race of get_course_details
\* requests affects only requests for the same course id: when two requests
\* for different course ids both miss, fetch and complete, the cache file
\* afterwards holds an entry for both course ids, and the entry of a third
\* id that was cached before is still there
C24_BothFetchesCached ==
    TwoFetches =>
        /\ \A i \in RaceProcs : cache[arg.reqs[i].id] # NoEntry
        /\ cache["c3"] = arg.cache["c3"]

\* two saves, of different tee names or for different courses
TwoSaves ==
    /\ BothDone
    /\ \A i \in RaceProcs : arg.reqs[i].op = "save"
    /\ arg.reqs[1] # arg.reqs[2]

\* the store holds the tee a request saved
HoldsTeeOf(store, req) ==
    /\ store[req.id] # NoEntry
    /\ \E k \in 1..Len(store[req.id].tees) : store[req.id].tees[k] = TeeEntry(req.data)

\* the invalidation of request i changes the cache entry of its own course
\* id at most
InvalidatesOwn(i) ==
    pc[i] = "invalidate" /\ pc'[i] = "done" =>
        \A c \in RaceIds \ {arg.reqs[i].id} : cache'[c] = cache[c]

\* C25 (as the specification states it): under any interleaving of two
\* save_custom_tee requests for different tee names of one course or for
\* different courses, the store holds both saved tees once both are
\* answered; and the cache invalidation of a save never removes or brings
\* back the cache entry of another course id
C25_BothSavesStored ==
    /\ [](TwoSaves => \A i \in RaceProcs : HoldsTeeOf(custom, arg.reqs[i]))
    /\ [][\A i \in RaceProcs : InvalidatesOwn(i)]_vars

-----------------------------------------------------------------------------
(* Merging the custom tees a second time *)

\* C26: _merge_custom_tees is idempotent for a fixed custom-tee store:
\* applied to its own output it gives the same record, no tee is appended a
\* second time and no field changes
C26_MergeIdempotent ==
    pc = "done" => MergeCustomTees(arg.entry, ret) = ret

\* a merge that has appended a tee and has filled a field of another
C26_AppendedAndFilled ==
    /\ pc = "done"
    /\ arg.entry # NoEntry
    /\ Len(ret.tees) > Len(arg.course_data.tees)
    /\ \E i \in 1..Len(arg.course_data.tees) : ret.tees[i] # arg.course_data.tees[i]
    /\ MergeCustomTees(arg.entry, ret) = ret

-----------------------------------------------------------------------------
(* What a failed request leaves behind *)

\* the ways get_course_details fails: no API key, no 200 from the provider
\* (a status or an exception of the fetch), an exception of the assembly
ErrorPaths == {"nokey", "upstream", "except"}

=============================================================================
